---- MODULE Spec2Model ----
(***************************************************************************)
(* Reference validation pipeline of the reference checker: the string      *)
(* matching toolkit (utils/stringMatching), the source connectors' result  *)
(* contract, the validation analyzers, the two orchestrators (api-only     *)
(* and agent-based) and the bibliography parser (regexExtractor).          *)
(*                                                                         *)
(* Numbers that are JavaScript doubles in the code are exact rationals     *)
(* here: a score is a pair <<n, d>> in lowest terms with d > 0.            *)
(* Strings are sequences of one-character strings.                         *)
(***************************************************************************)
EXTENDS Integers, Sequences, FiniteSets, TLC

(***************************************************************************)
(* Bounds of the model                                                     *)
(***************************************************************************)
\* longest title, in words, that the string-matching specification draws
MaxWords == 3
\* most connectors enabled in one validation run of the orchestrator specification
MaxEnabled == 2
\* most query variants the query-variant capability returns
MaxVariants == 2
MaxFaults == 2

(***************************************************************************)
(* Exact rational arithmetic                                               *)
(***************************************************************************)
RECURSIVE Gcd(_, _)
Gcd(a, b) == IF b = 0 THEN a ELSE Gcd(b, a % b)

Abs(x) == IF x < 0 THEN -x ELSE x

\* the rational n/d (d > 0) in lowest terms
Rat(n, d) ==
  LET g == Gcd(Abs(n), d)
  IN  IF n = 0 THEN <<0, 1>> ELSE <<n \div g, d \div g>>

Zero == <<0, 1>>
One == <<1, 1>>

RAdd(a, b) == Rat(a[1] * b[2] + b[1] * a[2], a[2] * b[2])
RMul(a, b) == Rat(a[1] * b[1], a[2] * b[2])
\* a / b for b > 0
RDiv(a, b) == Rat(a[1] * b[2], a[2] * b[1])
RLt(a, b) == a[1] * b[2] < b[1] * a[2]
RLe(a, b) == a[1] * b[2] <= b[1] * a[2]
RGt(a, b) == RLt(b, a)
RGe(a, b) == RLe(b, a)
RMax(a, b) == IF RGt(b, a) THEN b ELSE a
InUnit(a) == RLe(Zero, a) /\ RLe(a, One)

(***************************************************************************)
(* Characters and strings                                                  *)
(***************************************************************************)
LowerSeq == <<"a", "b", "c", "d", "e", "f", "g", "h", "i", "j", "k", "l", "m",
              "n", "o", "p", "q", "r", "s", "t", "u", "v", "w", "x", "y", "z">>
UpperSeq == <<"A", "B", "C", "D", "E", "F", "G", "H", "I", "J", "K", "L", "M",
              "N", "O", "P", "Q", "R", "S", "T", "U", "V", "W", "X", "Y", "Z">>
DigitSeq == <<"0", "1", "2", "3", "4", "5", "6", "7", "8", "9">>
LowerLetters == {LowerSeq[i] : i \in 1..Len(LowerSeq)}
UpperLetters == {UpperSeq[i] : i \in 1..Len(UpperSeq)}
Digits == {DigitSeq[i] : i \in 1..Len(DigitSeq)}
UpperToLower ==
  [c \in UpperLetters |-> LowerSeq[CHOOSE i \in 1..Len(UpperSeq) : UpperSeq[i] = c]]
DigitValue ==
  [c \in Digits |-> (CHOOSE i \in 1..Len(DigitSeq) : DigitSeq[i] = c) - 1]

\* String.prototype.toLowerCase on one character
ToLowerChar(c) == IF c \in UpperLetters THEN UpperToLower[c] ELSE c

IsSpace(c) == c = " "
\* \w of the regular expressions
IsWordChar(c) == c \in LowerLetters \/ c \in UpperLetters \/ c \in Digits \/ c = "_"

MapSeq(s, Op(_)) == [i \in 1..Len(s) |-> Op(s[i])]

\* .replace(/[^\w\s]/g, ' ')
PunctToSpace(s) == MapSeq(s, LAMBDA c : IF IsWordChar(c) \/ IsSpace(c) THEN c ELSE " ")

\* .replace(/\s+/g, ' ')
RECURSIVE CollapseSpaces(_)
CollapseSpaces(s) ==
  IF Len(s) <= 1 THEN s
  ELSE IF IsSpace(s[1]) /\ IsSpace(s[2]) THEN CollapseSpaces(Tail(s))
  ELSE <<s[1]>> \o CollapseSpaces(Tail(s))

\* .trim()
RECURSIVE TrimLeft(_)
TrimLeft(s) == IF s # <<>> /\ IsSpace(s[1]) THEN TrimLeft(Tail(s)) ELSE s

RECURSIVE TrimRight(_)
TrimRight(s) ==
  IF s # <<>> /\ IsSpace(s[Len(s)]) THEN TrimRight(SubSeq(s, 1, Len(s) - 1)) ELSE s

Trim(s) == TrimRight(TrimLeft(s))

ToLowerCase(s) == MapSeq(s, ToLowerChar)

normalizeString(str) == Trim(CollapseSpaces(PunctToSpace(ToLowerCase(str))))

StartsWith(s, p) == Len(s) >= Len(p) /\ SubSeq(s, 1, Len(p)) = p

\* .replace(/^(the|a|an)\s+/i, ''): one leading article and the white space after it
StripLeadingArticle(s) ==
  LET arts == <<(<<"t", "h", "e">>), (<<"a">>), (<<"a", "n">>)>>
      hits == {i \in 1..3 : StartsWith(s, arts[i] \o <<" ">>)}
  IN  IF hits = {} THEN s
      ELSE LET i == CHOOSE k \in hits : \A m \in hits : k <= m
           IN  TrimLeft(SubSeq(s, Len(arts[i]) + 1, Len(s)))

normalizeTitle(str) ==
  Trim(CollapseSpaces(PunctToSpace(StripLeadingArticle(ToLowerCase(str)))))

\* String.prototype.split(' ')
RECURSIVE SplitOnSpace(_, _)
SplitOnSpace(s, cur) ==
  IF s = <<>> THEN <<cur>>
  ELSE IF IsSpace(s[1]) THEN <<cur>> \o SplitOnSpace(Tail(s), <<>>)
  ELSE SplitOnSpace(Tail(s), Append(cur, s[1]))

\* String.prototype.includes
Includes(hay, needle) ==
  \E i \in 0..(Len(hay) - Len(needle)) : SubSeq(hay, i + 1, i + Len(needle)) = needle

Min(x, y) == IF x < y THEN x ELSE y
Max(x, y) == IF x > y THEN x ELSE y

(***************************************************************************)
(* stringMatching: Levenshtein distance and the similarity functions       *)
(***************************************************************************)
\* one row of the distance matrix from the row above it (the tests on cell and
\* on next only make the evaluation of a row finish before the next one starts)
RECURSIVE LevRow(_, _, _, _)
LevRow(prev, a, ch, row) ==
  LET j == Len(row)
      cell == IF ch = a[j] THEN prev[j]
              ELSE Min(prev[j] + 1, Min(row[j] + 1, prev[j + 1] + 1))
  IN  IF j > Len(a) THEN row
      ELSE IF cell >= 0 THEN LevRow(prev, a, ch, Append(row, cell))
      ELSE row

RECURSIVE LevRows(_, _, _, _)
LevRows(prev, a, b, i) ==
  LET next == LevRow(prev, a, b[i], <<i>>)
  IN  IF i > Len(b) THEN prev
      ELSE IF Len(next) > 0 THEN LevRows(next, a, b, i + 1)
      ELSE prev

levenshteinDistance(a, b) ==
  LevRows([j \in 1..(Len(a) + 1) |-> j - 1], a, b, 1)[Len(a) + 1]

stringSimilarity(a, b) ==
  LET Similarity(normalizedA, normalizedB) ==
        IF normalizedA = normalizedB THEN One
        ELSE IF Len(normalizedA) = 0 \/ Len(normalizedB) = 0 THEN Zero
        ELSE LET distance == levenshteinDistance(normalizedA, normalizedB)
                 maxLength == Max(Len(normalizedA), Len(normalizedB))
             IN  Rat(maxLength - distance, maxLength)
  IN  Similarity(normalizeString(a), normalizeString(b))

Tokens(s) == SelectSeq(SplitOnSpace(normalizeString(s), <<>>), LAMBDA t : Len(t) > 2)

\* the inner loop of tokenSimilarity: what tokenA adds to matchCount
RECURSIVE TokenMatch(_, _, _)
TokenMatch(tokenA, tokensB, k) ==
  IF k > Len(tokensB) THEN Zero
  ELSE IF tokenA = tokensB[k] THEN One
  ELSE LET Fuzzy(similarity) ==
             IF Len(tokenA) > 4 /\ Len(tokensB[k]) > 4 /\ RGt(similarity, <<4, 5>>)
             THEN similarity
             ELSE TokenMatch(tokenA, tokensB, k + 1)
       IN  Fuzzy(stringSimilarity(tokenA, tokensB[k]))

RECURSIVE MatchCount(_, _, _)
MatchCount(tokensA, tokensB, i) ==
  IF i > Len(tokensA) THEN Zero
  ELSE RAdd(TokenMatch(tokensA[i], tokensB, 1), MatchCount(tokensA, tokensB, i + 1))

SeqToSet(s) == {s[i] : i \in 1..Len(s)}

tokenSimilarity(a, b) ==
  LET Similarity(tokensA, tokensB) ==
        IF Len(tokensA) = 0 \/ Len(tokensB) = 0 THEN Zero
        ELSE LET matchCount == MatchCount(tokensA, tokensB, 1)
                 totalTokens == Cardinality(SeqToSet(tokensA) \cup SeqToSet(tokensB))
             IN  RDiv(matchCount, <<totalTokens, 1>>)
  IN  Similarity(Tokens(a), Tokens(b))

combinedSimilarity(a, b) == RMax(stringSimilarity(a, b), tokenSimilarity(a, b))

titleSimilarity(a, b) ==
  LET Similarity(normA, normB) ==
        IF normA = normB THEN One
        ELSE IF Len(normA) = 0 \/ Len(normB) = 0 THEN Zero
        ELSE IF Includes(normA, normB) \/ Includes(normB, normA)
             THEN Rat(Min(Len(normA), Len(normB)), Max(Len(normA), Len(normB)))
        ELSE combinedSimilarity(a, b)
  IN  Similarity(normalizeTitle(a), normalizeTitle(b))

(***************************************************************************)
(* Data model: ValidationSource, RetrievedReferenceData, Reference         *)
(***************************************************************************)
\* JavaScript null / undefined
Null == [null |-> TRUE]
\* a ValidationSource without the optional confidence
NoConf == <<>>
\* the result of parseInt that is NaN
NaN == <<>>

Connectors == <<"crossref", "semantic_scholar", "openalex", "arxiv">>
ConnectorSet == SeqToSet(Connectors)

NewSource(name) ==
  [name |-> name, found |-> FALSE, matchScore |-> Zero, retrievedData |-> Null,
   errors |-> <<>>, confidence |-> NoConf, step |-> "none"]

\* { ...r, step }
WithStep(src, step) == [src EXCEPT !.step = step]

(***************************************************************************)
(* authorNormalization and the numeric helpers of JavaScript               *)
(***************************************************************************)
\* parseInt(s): leading white space, an optional sign, then the leading digits
RECURSIVE LeadingDigits(_, _)
LeadingDigits(s, acc) ==
  IF s # <<>> /\ s[1] \in Digits
  THEN LeadingDigits(Tail(s), <<10 * (IF acc = NaN THEN 0 ELSE acc[1]) + DigitValue[s[1]]>>)
  ELSE acc

parseInt(str) ==
  LET Signed(neg, digits) ==
        IF digits = NaN THEN NaN ELSE IF neg THEN <<-digits[1]>> ELSE digits
      Parse(s) ==
        Signed(s # <<>> /\ s[1] = "-",
               LeadingDigits(IF s # <<>> /\ s[1] \in {"-", "+"} THEN Tail(s) ELSE s, NaN))
  IN  Parse(TrimLeft(str))

isNaN(x) == x = NaN

Last(s) == s[Len(s)]

\* name.trim().split(/\s+/)
SplitOnSpaces(name) == SplitOnSpace(CollapseSpaces(Trim(name)), <<>>)

RemoveChar(s, ch) == SelectSeq(s, LAMBDA c : c # ch)

\* /^[a-zA-Z]+$/.test(s)
IsLetters(s) == s # <<>> /\ \A i \in 1..Len(s) : s[i] \in LowerLetters \cup UpperLetters

\* String.prototype.replace(',', ''): the first comma only
RECURSIVE RemoveFirst(_, _)
RemoveFirst(s, ch) ==
  IF s = <<>> THEN s
  ELSE IF s[1] = ch THEN Tail(s)
  ELSE <<s[1]>> \o RemoveFirst(Tail(s), ch)

extractLastName(name) ==
  LET LastName(parts) ==
        LET last == RemoveChar(Last(parts), ".")
            looksLikeInitial == Len(last) <= 2 /\ IsLetters(last)
            first == RemoveChar(parts[1], ".")
            firstLooksLikeInitial == Len(first) <= 2 /\ IsLetters(first)
        IN  IF parts[1] # <<>> /\ Last(parts[1]) = ","
              THEN ToLowerCase(RemoveFirst(parts[1], ","))
            ELSE IF looksLikeInitial /\ Len(parts) >= 2 THEN ToLowerCase(parts[1])
            ELSE IF firstLooksLikeInitial /\ Len(parts) >= 2 THEN ToLowerCase(Last(parts))
            ELSE ToLowerCase(Last(parts))
  IN  LastName(SplitOnSpaces(name))

compareAuthorLists(authors1, authors2) ==
  IF Len(authors1) = 0 \/ Len(authors2) = 0 THEN Zero
  ELSE LET Overlap(lastNames1, lastNames2) ==
             LET intersection == lastNames1 \cap lastNames2
                 minSize == Min(Cardinality(lastNames1), Cardinality(lastNames2))
             IN  Rat(Cardinality(intersection), minSize)
       IN  Overlap({extractLastName(authors1[i]) : i \in 1..Len(authors1)},
                   {extractLastName(authors2[i]) : i \in 1..Len(authors2)})

\* (a.split(' ').pop() || a).toLowerCase() of the connectors
ConnectorLastName(a) ==
  LET lastPart == Last(SplitOnSpace(a, <<>>))
  IN  ToLowerCase(IF lastPart # <<>> THEN lastPart ELSE a)

(***************************************************************************)
(* Connectors: candidate acceptance and match score                        *)
(***************************************************************************)
yearScore(yearDiff) ==
  IF yearDiff = 0 THEN One
  ELSE IF yearDiff = 1 THEN <<9, 10>>
  ELSE IF yearDiff = 2 THEN <<7, 10>>
  ELSE <<3, 10>>

\* the three optional terms of a weighted score: each is <<weighted score, weight>>
WeightedScore(terms) ==
  LET score == RAdd(terms[1][1], RAdd(terms[2][1], terms[3][1]))
      weights == RAdd(terms[1][2], RAdd(terms[2][2], terms[3][2]))
  IN  IF RGt(weights, Zero) THEN RDiv(score, weights) ELSE Zero

NoTerm == <<Zero, Zero>>

YearTerm(reference, retrieved) ==
  LET Term(refYear, retYear) ==
        IF reference.year # <<>> /\ retrieved.year # <<>>
           /\ ~isNaN(refYear) /\ ~isNaN(retYear)
        THEN <<RMul(yearScore(Abs(refYear[1] - retYear[1])), <<1, 5>>), <<1, 5>>>>
        ELSE NoTerm
  IN  Term(parseInt(reference.year), parseInt(retrieved.year))

\* calculateMatchScore of the CrossRef, Semantic Scholar and OpenAlex connectors
calculateMatchScore(reference, retrieved) ==
  LET titleTerm ==
        IF reference.title # <<>> /\ retrieved.title # <<>>
        THEN <<RMul(titleSimilarity(reference.title, retrieved.title), <<1, 2>>), <<1, 2>>>>
        ELSE NoTerm
      refLastNames == MapSeq(reference.authors, ConnectorLastName)
      retLastNames == MapSeq(retrieved.authors, ConnectorLastName)
      matchCount ==
        Cardinality({i \in 1..Len(refLastNames) :
          \E k \in 1..Len(retLastNames) :
            Includes(retLastNames[k], refLastNames[i]) \/ Includes(refLastNames[i], retLastNames[k])})
      authorTerm ==
        IF Len(reference.authors) > 0 /\ Len(retrieved.authors) > 0
        THEN <<RMul(Rat(matchCount, Max(Len(refLastNames), Len(retLastNames))), <<3, 10>>),
               <<3, 10>>>>
        ELSE NoTerm
  IN  WeightedScore(<<titleTerm, authorTerm, YearTerm(reference, retrieved)>>)

\* calculateMatchScore of the arXiv connector
calculateMatchScoreArxiv(reference, retrieved) ==
  LET titleTerm ==
        IF reference.title # <<>> /\ retrieved.title # <<>>
        THEN <<RMul(stringSimilarity(reference.title, retrieved.title), <<2, 5>>), <<2, 5>>>>
        ELSE NoTerm
      \* a.toLowerCase().split(' ').pop()
      refAuthors == {Last(SplitOnSpace(ToLowerCase(reference.authors[i]), <<>>)) :
                       i \in 1..Len(reference.authors)}
      retAuthors == {Last(SplitOnSpace(ToLowerCase(retrieved.authors[i]), <<>>)) :
                       i \in 1..Len(retrieved.authors)}
      authorTerm ==
        IF Len(reference.authors) > 0 /\ Len(retrieved.authors) > 0
        THEN <<RMul(Rat(Cardinality(refAuthors \cap retAuthors),
                        Max(Cardinality(refAuthors), Cardinality(retAuthors))), <<3, 10>>),
               <<3, 10>>>>
        ELSE NoTerm
      \* Math.abs of NaN is NaN, which equals neither 0 nor 1
      YearTermArxiv(refYear, retYear) ==
        IF reference.year # <<>> /\ retrieved.year # <<>>
        THEN <<RMul(IF isNaN(refYear) \/ isNaN(retYear) THEN Zero
                    ELSE IF Abs(refYear[1] - retYear[1]) = 0 THEN One
                    ELSE IF Abs(refYear[1] - retYear[1]) = 1 THEN <<4, 5>>
                    ELSE Zero, <<1, 5>>), <<1, 5>>>>
        ELSE NoTerm
  IN  WeightedScore(<<titleTerm, authorTerm,
                      YearTermArxiv(parseInt(reference.year), parseInt(retrieved.year))>>)

\* calculateConfidence of the web-search agent
calculateConfidence(reference, retrieved) ==
  LET titleTerm ==
        IF reference.title # <<>> /\ retrieved.title # <<>>
        THEN <<RMul(titleSimilarity(reference.title, retrieved.title), <<1, 2>>), <<1, 2>>>>
        ELSE NoTerm
      authorTerm ==
        IF Len(reference.authors) > 0 /\ Len(retrieved.authors) > 0
        THEN <<RMul(compareAuthorLists(reference.authors, retrieved.authors), <<3, 10>>),
               <<3, 10>>>>
        ELSE NoTerm
  IN  WeightedScore(<<titleTerm, authorTerm, YearTerm(reference, retrieved)>>)

\* whether a connector's lookup can return the database record d for this reference:
\* the DOI lookup (CrossRef, Semantic Scholar, OpenAlex) returns the record registered
\* under the reference's DOI, the title search only a candidate above the connector's
\* acceptance threshold
ConnectorFinds(name, reference, d) ==
  IF name = "arxiv"
  THEN reference.title # <<>> /\ RGt(stringSimilarity(reference.title, d.title), <<7, 10>>)
  ELSE \/ reference.doi # <<>> /\ d.doi = reference.doi
       \/ reference.title # <<>> /\ RGt(titleSimilarity(reference.title, d.title), <<3, 5>>)

\* what a database can do on one call: a request fails, no record, or a record;
\* Rejected is a connector promise that rejects instead of resolving
Failed == [kind |-> "error"]
Rejected == [kind |-> "reject"]
NoRecord == [kind |-> "none"]
Record(d) == [kind |-> "found", data |-> d]
IsFault(outcome) == outcome.kind \in {"error", "reject"}

\* validateWithCrossRef / SemanticScholar / OpenAlex / Arxiv, given what the
\* database did
Connector(name, reference, outcome) ==
  LET source == NewSource(name)
  IN  IF outcome.kind = "error" THEN [source EXCEPT !.errors = <<"api_error">>]
      ELSE IF outcome.kind = "none" THEN [source EXCEPT !.errors = <<"not_found">>]
      ELSE [source EXCEPT
              !.retrievedData = outcome.data,
              !.found = TRUE,
              !.matchScore = IF name = "arxiv"
                             THEN calculateMatchScoreArxiv(reference, outcome.data)
                             ELSE calculateMatchScore(reference, outcome.data)]

\* a wrapper that drops the error message
CatchWrapperSilent(name) == NewSource(name)

\* the .catch((error) => ({...})) wrapped around each connector of a parallel step
CatchWrapper(name) == [NewSource(name) EXCEPT !.errors = <<"api_error">>]

\* one connector promise of a parallel step
WrappedConnector(name, reference, outcome) ==
  IF outcome.kind = "reject" THEN CatchWrapper(name) ELSE Connector(name, reference, outcome)

\* searchWebForReference, given what the search and the data extraction did
searchWebForReference(reference, outcome) ==
  LET source == [NewSource("web_search") EXCEPT !.step = "web_search", !.confidence = Zero]
      Scored(confidence) ==
        [source EXCEPT
           !.retrievedData = outcome.data,
           !.found = RGt(confidence, Zero),
           !.matchScore = confidence,
           !.confidence = confidence]
  IN  IF outcome.kind = "error" THEN [source EXCEPT !.errors = <<"api_error">>]
      ELSE IF outcome.kind = "none" THEN [source EXCEPT !.errors = <<"no_data">>]
      ELSE Scored(calculateConfidence(reference, outcome.data))

(***************************************************************************)
(* ValidationAnalyzer: analyzeResults of the two orchestrators             *)
(***************************************************************************)
TITLE_MATCH_THRESHOLD == <<7, 10>>
\* an author threshold of one half
AuthorThresholdHalf == <<1, 2>>
\* a threshold every author score reaches
AuthorThresholdNone == <<0, 1>>
AUTHOR_MATCH_THRESHOLD == <<3, 5>>
YEAR_TOLERANCE == 1
\* a web-search acceptance threshold of two fifths
WebThresholdLow == <<2, 5>>
WEB_SEARCH_CONFIDENCE_THRESHOLD == <<7, 10>>

Issue(type, severity) == [type |-> type, severity |-> severity]

\* a filter that forgets the score
FoundOnly(sources) == SelectSeq(sources, LAMBDA s : s.found)

\* sources.filter((s) => s.found && s.matchScore > 0)
FoundSources(sources) == SelectSeq(sources, LAMBDA s : s.found /\ RGt(s.matchScore, Zero))

\* an insertion that puts a source before the sources of equal score
RECURSIVE InsertBeforeEquals(_, _)
InsertBeforeEquals(sorted, src) ==
  IF sorted = <<>> THEN <<src>>
  ELSE IF RGt(sorted[1].matchScore, src.matchScore)
       THEN <<sorted[1]>> \o InsertBeforeEquals(Tail(sorted), src)
  ELSE <<src>> \o sorted

\* Array.prototype.sort((a, b) => b.matchScore - a.matchScore): stable, descending
RECURSIVE InsertByScore(_, _)
InsertByScore(sorted, src) ==
  IF sorted = <<>> THEN <<src>>
  ELSE IF RGe(sorted[1].matchScore, src.matchScore)
       THEN <<sorted[1]>> \o InsertByScore(Tail(sorted), src)
  ELSE <<src>> \o sorted

RECURSIVE SortByScore(_)
SortByScore(sources) ==
  IF sources = <<>> THEN <<>>
  ELSE InsertByScore(SortByScore(SubSeq(sources, 1, Len(sources) - 1)), Last(sources))

\* a sort in ascending order: the weakest found source first
findBestMatchAscending(sources) ==
  LET foundSources == FoundSources(sources)
      sorted == SortByScore(foundSources)
  IN  IF Len(foundSources) = 0 THEN Null ELSE sorted[Len(sorted)]

findBestMatch(sources) ==
  LET foundSources == FoundSources(sources)
  IN  IF Len(foundSources) = 0 THEN Null ELSE SortByScore(foundSources)[1]

Unverified(issues) ==
  [status |-> "unverified", issues |-> issues, bestMatch |-> Null, confidence |-> Zero]

\* the field comparison and status decision both analyzers share
AnalyzeBest(reference, bestSource) ==
  LET bestMatch == bestSource.retrievedData
      compareTitle == reference.title # <<>> /\ bestMatch.title # <<>>
      compareAuthors == Len(reference.authors) > 0 /\ Len(bestMatch.authors) > 0
      \* the decision, given the two field scores and the two parsed years
      Decide(titleScore, authorScore, refYear, matchYear) ==
        LET titleIssues ==
              IF compareTitle /\ RLt(titleScore, TITLE_MATCH_THRESHOLD)
              THEN <<Issue("title_mismatch",
                           IF RLt(titleScore, <<1, 2>>) THEN "error" ELSE "warning")>>
              ELSE <<>>
            authorIssues ==
              IF compareAuthors /\ RLt(authorScore, AUTHOR_MATCH_THRESHOLD)
              THEN <<Issue("author_mismatch",
                           IF RLt(authorScore, <<2, 5>>) THEN "error" ELSE "warning")>>
              ELSE <<>>
            compareYear == reference.year # <<>> /\ bestMatch.year # <<>>
                           /\ ~isNaN(refYear) /\ ~isNaN(matchYear)
            yearDiff == IF compareYear THEN Abs(refYear[1] - matchYear[1]) ELSE 0
            yearMatch == IF compareYear THEN yearDiff <= YEAR_TOLERANCE ELSE TRUE
            yearIssues == IF compareYear /\ yearDiff > 0
                          THEN <<Issue("year_mismatch", "warning")>> ELSE <<>>
            confidence ==
              RAdd(RMul(titleScore, <<1, 2>>),
                   RAdd(RMul(authorScore, <<3, 10>>), IF yearMatch THEN <<1, 5>> ELSE Zero))
            status ==
              IF RGe(titleScore, TITLE_MATCH_THRESHOLD)
                 /\ RGe(authorScore, AUTHOR_MATCH_THRESHOLD) /\ yearMatch
              THEN "verified"
              ELSE IF RGe(titleScore, TITLE_MATCH_THRESHOLD)
                      \/ RGe(authorScore, AUTHOR_MATCH_THRESHOLD)
              THEN (IF RGe(titleScore, <<1, 2>>) \/ RGe(authorScore, <<1, 2>>)
                    THEN "warning" ELSE "error")
              ELSE IF RGt(bestSource.matchScore, <<1, 2>>) THEN "warning"
              ELSE "error"
        IN  [status |-> status, issues |-> titleIssues \o authorIssues \o yearIssues,
             bestMatch |-> bestMatch, confidence |-> confidence]
  IN  Decide(IF compareTitle THEN titleSimilarity(reference.title, bestMatch.title)
             ELSE IF reference.title # <<>> /\ bestMatch.title = <<>> THEN Zero
             ELSE One,
             IF compareAuthors THEN compareAuthorLists(reference.authors, bestMatch.authors)
             ELSE One,
             parseInt(reference.year), parseInt(bestMatch.year))

\* analyzeResults of the agent-based orchestrator
analyzeResultsAgent(reference, sources) ==
  LET foundSources == FoundSources(sources)
      bestSource == SortByScore(foundSources)[1]
  IN  IF Len(foundSources) = 0 THEN Unverified(<<>>)
      ELSE IF bestSource.retrievedData = Null THEN Unverified(<<>>)
      ELSE IF /\ bestSource.name = "web_search"
              /\ bestSource.confidence # NoConf
              /\ RGt(bestSource.confidence, Zero)
              /\ RLt(bestSource.confidence, WEB_SEARCH_CONFIDENCE_THRESHOLD)
        THEN [status |-> "warning", issues |-> <<Issue("not_found", "warning")>>,
              bestMatch |-> bestSource.retrievedData, confidence |-> bestSource.confidence]
      ELSE AnalyzeBest(reference, bestSource)

\* analyzeResults of the api-only orchestrator
analyzeResultsApiOnly(reference, sources) ==
  LET foundSources == FoundSources(sources)
      bestSource == SortByScore(foundSources)[1]
  IN  IF Len(foundSources) = 0 THEN Unverified(<<Issue("not_found", "warning")>>)
      ELSE IF bestSource.retrievedData = Null THEN Unverified(<<>>)
      ELSE AnalyzeBest(reference, bestSource)

(***************************************************************************)
(* Explanations                                                            *)
(***************************************************************************)
labelForSourceName(name) ==
  CASE name = "semantic_scholar" -> "Semantic Scholar"
    [] name = "openalex" -> "OpenAlex"
    [] name = "crossref" -> "CrossRef"
    [] name = "arxiv" -> "arXiv"
    [] name = "web_search" -> "Web search"
    [] OTHER -> name

\* Array.from(new Set(xs)): the distinct elements in order of first occurrence
RECURSIVE Unique(_)
Unique(xs) ==
  IF xs = <<>> THEN <<>>
  ELSE LET front == Unique(SubSeq(xs, 1, Len(xs) - 1))
       IN  IF Last(xs) \in SeqToSet(front) THEN front ELSE Append(front, Last(xs))

\* the fixed suggestions of an unverified explanation
BaseNextSteps == <<"check_ocr_typos", "remove_venue_text", "verify_doi">>

\* shortest text generateFallbackExplanation can return
FallbackExplanationLen == 252
\* an explanation is appended as a suggestion only below this length
HintMaxLen == 240

\* the explanation data; of the presentation fields only kind, triedSources and
\* nextSteps are kept (an absent list is the empty sequence)
Explanation(kind, triedSources, nextSteps) ==
  [kind |-> kind, triedSources |-> triedSources, nextSteps |-> nextSteps]

HasDifferences(issues) == \E i \in 1..Len(issues) : issues[i].type # "not_found"

\* buildValidationExplanation of the agent-based orchestrator; hintLen is the length
\* of the trimmed message generateExplanation returned (read when unverified only)
buildValidationExplanation(status, issues, sources, hintLen) ==
  LET primarySource == findBestMatch(sources)
      stages == (IF \E i \in 1..Len(sources) : sources[i].step = "api"
                 THEN <<"APIs">> ELSE <<>>)
             \o (IF \E i \in 1..Len(sources) : sources[i].step = "query_enhanced"
                 THEN <<"Query-enhanced APIs">> ELSE <<>>)
             \o (IF \E i \in 1..Len(sources) : sources[i].name = "web_search"
                 THEN <<"Web search">> ELSE <<>>)
  IN  IF status = "verified" /\ ~HasDifferences(issues)
        THEN Explanation("verified", <<>>, <<>>)
      ELSE IF status \in {"warning", "error", "verified"}
        THEN Explanation("warn_or_error",
               (IF primarySource # Null
                THEN <<labelForSourceName(primarySource.name)>> ELSE <<>>) \o stages,
               <<>>)
      ELSE Explanation("unverified",
             Unique(MapSeq(sources, LAMBDA s : labelForSourceName(s.name))),
             BaseNextSteps \o (IF hintLen > 0 /\ hintLen < HintMaxLen
                               THEN <<"llm_hint">> ELSE <<>>))

\* buildApiOnlyExplanationData of the api-only orchestrator
buildApiOnlyExplanationData(status, issues, sources) ==
  LET primarySource == findBestMatch(sources)
  IN  IF status = "unverified"
        THEN Explanation("unverified",
               MapSeq(sources, LAMBDA s : labelForSourceName(s.name)), BaseNextSteps)
      ELSE IF status = "verified" /\ ~HasDifferences(issues)
        THEN Explanation("verified", <<>>, <<>>)
      ELSE Explanation("warn_or_error",
             IF primarySource # Null
             THEN <<labelForSourceName(primarySource.name)>> ELSE <<>>,
             <<>>)

\* the result validateAllReferences records when validating a reference throws
errorResult ==
  [status |-> "unverified", sources |-> <<>>,
   issues |-> <<Issue("not_found", "error")>>, bestMatch |-> Null,
   explanationData |-> Explanation("unverified", <<>>, <<"try_again_later">>)]

ValidationResult(analysis, sources, explanationData) ==
  [status |-> analysis.status, sources |-> sources, issues |-> analysis.issues,
   bestMatch |-> analysis.bestMatch, explanationData |-> explanationData]

(***************************************************************************)
(* The world of one validation run: references, database records, and the  *)
(* answers of the language-model capabilities                              *)
(***************************************************************************)
S_neural_net == <<"n", "e", "u", "r", "a", "l", " ", "n", "e", "t">>
S_Neural_Net == <<"N", "e", "u", "r", "a", "l", " ", "N", "e", "t", ".">>
S_big == <<"b", "i", "g">>
S_J_Smith == <<"J", " ", "S", "m", "i", "t", "h">>
S_Jane_Smith == <<"J", "a", "n", "e", " ", "S", "m", "i", "t", "h">>
S_Bo_Lee == <<"B", "o", " ", "L", "e", "e">>
S_2020 == <<"2", "0", "2", "0">>
S_2015 == <<"2", "0", "1", "5">>
S_doi == <<"1", "0", ".", "1", "/", "x">>

Paper(title, authors, year, doi) ==
  [title |-> title, authors |-> authors, year |-> year, doi |-> doi]

\* the extracted reference, without and with a DOI
RefPlain == Paper(S_neural_net, <<S_J_Smith>>, S_2020, <<>>)
RefDoi == Paper(S_neural_net, <<S_J_Smith>>, S_2020, S_doi)
RefPool == {RefPlain, RefDoi}

\* records a database or the web search can return: the cited work, a work of the
\* same title by somebody else, and an unrelated work registered under S_doi
WorkExact == Paper(S_Neural_Net, <<S_Jane_Smith>>, S_2020, <<>>)
WorkWeak == Paper(S_neural_net, <<S_Bo_Lee>>, S_2015, <<>>)
WorkOther == Paper(S_big, <<>>, <<>>, S_doi)
Works == {WorkExact, WorkWeak, WorkOther}

Outcomes(name, reference) ==
  {Failed, Rejected, NoRecord}
    \cup {Record(d) : d \in {w \in Works : ConnectorFinds(name, reference, w)}}

WebOutcomes == {Failed, NoRecord} \cup {Record(d) : d \in Works}

\* a query variant as the language model wrote it; hasAuthors is FALSE when the
\* element has no authors member
Query(title, authors, year, hasAuthors) ==
  [title |-> title, authors |-> authors, year |-> year, hasAuthors |-> hasAuthors]

VariantBig == Query(S_big, <<>>, <<>>, TRUE)
VariantNoAuthors == Query(S_neural_net, <<>>, <<>>, FALSE)
VariantPool == {VariantBig, VariantNoAuthors}

RECURSIVE SeqsUpTo(_, _)
SeqsUpTo(S, n) ==
  IF n = 0 THEN {<<>>}
  ELSE LET shorter == SeqsUpTo(S, n - 1)
       IN  shorter \cup {Append(q, x) : q \in shorter, x \in S}

\* what the language model answers to the query-enhancement prompt: the call throws
\* (no key, HTTP error), or text that JSON.parse rejects, parses to a non-array, or
\* parses to an array
LLMThrows == [kind |-> "throw", elems |-> <<>>]
Unparseable == [kind |-> "unparseable", elems |-> <<>>]
NonArray == [kind |-> "nonarray", elems |-> <<>>]
ArrayOf(elems) == [kind |-> "array", elems |-> elems]
NoResponse == [kind |-> "none", elems |-> <<>>]
QueryResponses ==
  {LLMThrows, Unparseable, NonArray} \cup {ArrayOf(q) : q \in SeqsUpTo(VariantPool, MaxVariants)}

\* what the language model answers to the explanation prompt: the call throws or no
\* key is configured, or a text of some trimmed length
HintLens == {0, 80, 300}
ExplainResponses == {[kind |-> "throw", len |-> 0]} \cup {[kind |-> "text", len |-> n] : n \in HintLens}

\* length of the trimmed message of the issue generateExplanation returns
generateExplanation(response) ==
  IF response.kind = "throw" THEN FallbackExplanationLen ELSE response.len

OriginalQuery(reference) == Query(reference.title, reference.authors, reference.year, TRUE)

enhanceQueriesWithLLM(reference, response) ==
  IF response.kind = "array" /\ Len(response.elems) > 0 THEN response.elems
  ELSE <<OriginalQuery(reference)>>

\* { ...reference, title: q.title || reference.title, ... }
enhancedReference(reference, q) ==
  [reference EXCEPT
     !.title = IF q.title # <<>> THEN q.title ELSE reference.title,
     !.authors = IF Len(q.authors) > 0 THEN q.authors ELSE reference.authors,
     !.year = IF q.year # <<>> THEN q.year ELSE reference.year]

(***************************************************************************)
(* One validation run: validateAllReferences validating one reference      *)
(***************************************************************************)
VARIABLES
  mode,            \* settings.validation.mode
  enabled,         \* the connectors settings.validation enables
  reference,       \* the reference being validated
  pc,              \* where the run is
  inFlight,        \* calls awaited and not yet settled
  settled,         \* sources of the settled connector promises of the current step
  faults,          \* connector failures so far
  sources,         \* allSources of the staged run / sources of the simple run
  apiSources,      \* what validateWithAPIAgent returned
  responseText,    \* the language model's answer to the query-enhancement prompt
  enhancedQueries, \* the queries retryAPIsWithEnhancedQueries iterates over
  queryIndex,      \* position of its loop
  qeSources,       \* allSources of retryAPIsWithEnhancedQueries
  webSearchResult, \* what searchWebForReference returned
  analysis,        \* status, issues and bestMatch awaiting the explanation
  result,          \* the ValidationResult handed to onResult
  rounds,          \* the parallel connector rounds started: step and query
  called,          \* the connectors the simple run has called, in order
  nCalls           \* invocations of the capabilities and of the analyzer

VARIABLES simA, simB, simPc, simToken, simTitle, simScores

\* one call of the analyzer: its arguments, whether it has run, and what it returned
VARIABLES anaReference, anaSources, anaPc, anaResult

\* one call of extractReferencesWithRegex: the bibliography text, where the call is,
\* the normalized text, the strategies consulted so far and what the call returned
VARIABLES parseText, parsePc, parseNormalized, parseTried, parseResult

\* one call of extractReferences: its arguments, where the call is, the extractors
\* invoked so far in order, what the LLM extractor did, and what the call returned
VARIABLES exInput, exPc, exCalled, exLlm, exResult

\* the application store: the references, the validation results by reference id,
\* the validation progress, the validating flag, and the edits made so far
VARIABLES stReferences, stResults, stProgress, stIsValidating, stEdits

\* one run of handleValidateAll / validateAllReferences: the references it was
\* called with, the loop index, where the run is, the results collected, and the
\* calls of onProgress and of onResult in order
VARIABLES vaReferences, vaI, vaPc, vaResults, vaProgressLog, vaOnResult

\* the rate limiter of the proxy server: the clock (Date.now(), in ms), the map
\* requestCounts, how often the clock has advanced, what the middleware did with the
\* last request, and for each client the time of the request that opened its window
\* and the requests passed on since
VARIABLES rlNow, requestCounts, rlTicks, rlResponse, rlWindows

\* the module doiParser: the lastIndex of its ARXIV_PATTERN object, the texts
\* extractArxivId has been called with in order, and what the last call returned
VARIABLES arxivLastIndex, arxivCalls, arxivResult

\* one call of detectBibliography: the document, the position in the function, the
\* local variables startIndex, endIndex and matchedPattern, and what the call returned
VARIABLES bibDoc, bibPc, bibStartIndex, bibEndIndex, bibMatchedPattern, bibResult

runVars == <<mode, enabled, reference, pc, inFlight, settled, faults, sources, apiSources,
             responseText, enhancedQueries, queryIndex, qeSources, webSearchResult,
             analysis, result, rounds, called, nCalls>>
simVars == <<simA, simB, simPc, simToken, simTitle, simScores>>
anaVars == <<anaReference, anaSources, anaPc, anaResult>>
parseVars == <<parseText, parsePc, parseNormalized, parseTried, parseResult>>
exVars == <<exInput, exPc, exCalled, exLlm, exResult>>
stVars == <<stReferences, stResults, stProgress, stIsValidating, stEdits>>
vaVars == <<vaReferences, vaI, vaPc, vaResults, vaProgressLog, vaOnResult>>
rlVars == <<rlNow, requestCounts, rlTicks, rlResponse, rlWindows>>
arxivVars == <<arxivLastIndex, arxivCalls, arxivResult>>
bibVars == <<bibDoc, bibPc, bibStartIndex, bibEndIndex, bibMatchedPattern, bibResult>>
auxVars == <<exVars, stVars, vaVars, rlVars, arxivVars, bibVars>>
pureVars == <<simVars, anaVars, parseVars, auxVars>>
vars == <<runVars, pureVars>>

ConnectorCall(name, round) == [kind |-> "connector", name |-> name, round |-> round]
CapabilityCall(kind) == [kind |-> kind, name |-> kind, round |-> 0]
ConnectorCalls == {call \in inFlight : call.kind = "connector"}

NoneSettled == [c \in {} |-> Null]
NoScores == [matchScore |-> Zero, arxivScore |-> Zero, confidence |-> Zero, analysis |-> Zero]
NoCalls == [llm |-> 0, web |-> 0, explain |-> 0, analyze |-> 0, sleep |-> 0]
Count(counts, what) == [counts EXCEPT ![what] = @ + 1]

\* no string is being compared, no analyzer call is being made
SimIdle ==
  /\ simA = <<>> /\ simB = <<>> /\ simPc = "idle" /\ simToken = Zero /\ simTitle = Zero
  /\ simScores = NoScores

AnaIdle ==
  /\ anaReference = Null /\ anaSources = <<>> /\ anaPc = "idle" /\ anaResult = Null

ParseIdle ==
  /\ parseText = <<>> /\ parsePc = "idle" /\ parseNormalized = <<>> /\ parseTried = <<>>
  /\ parseResult = Null

ExIdle ==
  /\ exInput = Null /\ exPc = "idle" /\ exCalled = <<>> /\ exLlm = "none" /\ exResult = Null

NoResults == [id \in {} |-> Null]

\* no document is loaded and no validation runs
StoreIdle ==
  /\ stReferences = <<>> /\ stResults = NoResults /\ stProgress = Null
  /\ stIsValidating = FALSE /\ stEdits = 0
  /\ vaReferences = <<>> /\ vaI = 0 /\ vaPc = "idle" /\ vaResults = <<>>
  /\ vaProgressLog = <<>> /\ vaOnResult = <<>>

\* the proxy server has just started
RateLimiterIdle ==
  /\ rlNow = 0 /\ requestCounts = NoResults /\ rlTicks = 0 /\ rlResponse = Null
  /\ rlWindows = NoResults

\* the module doiParser has just been loaded
ArxivIdle == arxivLastIndex = 0 /\ arxivCalls = <<>> /\ arxivResult = <<>>

\* detectBibliography has not been called
BibIdle ==
  /\ bibDoc = Null /\ bibPc = "idle" /\ bibStartIndex = -1 /\ bibEndIndex = -1
  /\ bibMatchedPattern = ""
  /\ bibResult = Null

AuxIdle == ExIdle /\ StoreIdle /\ RateLimiterIdle /\ ArxivIdle /\ BibIdle

\* the state before a run starts
RunFresh ==
  /\ pc = "start"
  /\ inFlight = {}
  /\ settled = NoneSettled
  /\ faults = 0
  /\ sources = <<>>
  /\ apiSources = <<>>
  /\ responseText = NoResponse
  /\ enhancedQueries = <<>>
  /\ queryIndex = 0
  /\ qeSources = <<>>
  /\ webSearchResult = Null
  /\ analysis = Null
  /\ result = Null
  /\ rounds = <<>>
  /\ called = <<>>
  /\ nCalls = NoCalls

Modes == {"api-only", "agent-based"}
Settings == {e \in SUBSET ConnectorSet : Cardinality(e) <= MaxEnabled}

Init ==
  /\ mode \in Modes
  /\ enabled \in Settings
  /\ reference \in RefPool
  /\ RunFresh
  /\ SimIdle
  /\ AnaIdle
  /\ ParseIdle
  /\ AuxIdle

\* no validation run at all (the string-matching specification)
RunIdle ==
  /\ mode = "api-only" /\ enabled = {} /\ reference = RefPlain
  /\ RunFresh

\* the enabled connectors in the order the code starts them
EnabledSeq == SelectSeq(Connectors, LAMBDA c : c \in enabled)

\* a join that resumes at the first settled promise, as Promise.race would
AnySettled == DOMAIN settled # {} \/ ConnectorCalls = {}

\* await Promise.all(promises): every connector promise of the step has settled
AllSettled == ConnectorCalls = {}

\* the fulfilled values in promise order, each tagged { ...r, step }
Results(step) ==
  LET order == SelectSeq(Connectors, LAMBDA c : c \in DOMAIN settled)
  IN  [i \in 1..Len(order) |-> WithStep(settled[order[i]], step)]

\* start one parallel round of the enabled connectors for a query
StartRound(step, query) ==
  /\ rounds' = Append(rounds, [step |-> step, query |-> query])
  /\ settled' = NoneSettled
  /\ inFlight' = {ConnectorCall(c, Len(rounds) + 1) : c \in enabled}

\* a run that asks for an explanation of every status but verified
FinishExplainingMore(all) ==
  LET Explain(a) ==
        IF a.status # "verified"
          THEN /\ analysis' = a
               /\ inFlight' = ConnectorCalls \cup {CapabilityCall("explain")}
               /\ nCalls' = Count(Count(nCalls, "analyze"), "explain")
               /\ pc' = "explain"
               /\ result' = result
        ELSE /\ analysis' = a
             /\ inFlight' = ConnectorCalls
             /\ nCalls' = Count(nCalls, "analyze")
             /\ pc' = "done"
             /\ result' = ValidationResult(a, all,
                            buildValidationExplanation(a.status, a.issues, all, 0))
  IN  Explain(analyzeResultsAgent(reference, all))

\* const { status, issues, bestMatch } = analyzeResults(reference, allSources);
\* const explanation = await buildValidationExplanation({...}); return {...}
\* -- the explanation is awaited from generateExplanation only when unverified
Finish(all) ==
  LET Explain(a) ==
        IF a.status = "unverified"
          THEN /\ analysis' = a
               /\ inFlight' = ConnectorCalls \cup {CapabilityCall("explain")}
               /\ nCalls' = Count(Count(nCalls, "analyze"), "explain")
               /\ pc' = "explain"
               /\ result' = result
        ELSE /\ analysis' = a
             /\ inFlight' = ConnectorCalls
             /\ nCalls' = Count(nCalls, "analyze")
             /\ pc' = "done"
             /\ result' = ValidationResult(a, all,
                            buildValidationExplanation(a.status, a.issues, all, 0))
  IN  Explain(analyzeResultsAgent(reference, all))

\* the simple run moves on after position i of Connectors: the next enabled
\* connector is called, or the analyzer runs and the run returns
SimpleContinue(i, srcs) ==
  LET later == {j \in (i + 1)..Len(Connectors) : Connectors[j] \in enabled}
      next == CHOOSE j \in later : \A k \in later : j <= k
      Return(a) ==
        /\ inFlight' = {}
        /\ analysis' = a
        /\ nCalls' = Count(nCalls, "analyze")
        /\ result' = ValidationResult(a, srcs,
                       buildApiOnlyExplanationData(a.status, a.issues, srcs))
        /\ pc' = "done"
        /\ UNCHANGED called
  IN  IF later # {}
        THEN /\ inFlight' = {ConnectorCall(Connectors[next], 0)}
             /\ called' = Append(called, Connectors[next])
             /\ pc' = "simple_call"
             /\ UNCHANGED <<analysis, result, nCalls>>
      ELSE Return(analyzeResultsApiOnly(reference, srcs))

Position(name) == CHOOSE i \in 1..Len(Connectors) : Connectors[i] = name

\* validateReference is entered: the staged run starts the API agent's parallel
\* calls, the simple run its first connector
ValidateReference ==
  /\ pc = "start"
  /\ IF mode = "agent-based"
       THEN /\ StartRound("api", reference)
            /\ pc' = "api"
            /\ UNCHANGED <<analysis, result, nCalls, called>>
     ELSE /\ SimpleContinue(0, sources)
          /\ UNCHANGED <<settled, rounds>>
  /\ UNCHANGED <<mode, enabled, reference, faults, sources, apiSources, responseText,
                 enhancedQueries, queryIndex, qeSources, webSearchResult, pureVars>>

\* one connector promise of a parallel round settles
ConnectorSettles ==
  /\ pc \in {"api", "enhance_round"}
  /\ \E call \in ConnectorCalls :
       \E outcome \in Outcomes(call.name, rounds[call.round].query) :
         /\ IsFault(outcome) => faults < MaxFaults
         /\ faults' = IF IsFault(outcome) THEN faults + 1 ELSE faults
         /\ inFlight' = inFlight \ {call}
         /\ settled' = [c \in DOMAIN settled \cup {call.name} |->
                          IF c = call.name
                          THEN WrappedConnector(call.name, rounds[call.round].query, outcome)
                          ELSE settled[c]]
  /\ UNCHANGED <<mode, enabled, reference, pc, sources, apiSources, responseText,
                 enhancedQueries, queryIndex, qeSources, webSearchResult, analysis,
                 result, rounds, called, nCalls, pureVars>>

\* validateWithAPIAgent returns; the run exits early on a good match or asks the
\* language model for query variants
APIAgentJoins ==
  /\ pc = "api"
  /\ AllSettled
  /\ LET results == Results("api")
         all == sources \o results
         apiMatch == findBestMatch(results)
     IN  /\ apiSources' = results
         /\ sources' = all
         /\ IF apiMatch # Null /\ RGt(apiMatch.matchScore, <<7, 10>>)
              THEN Finish(all)
            ELSE /\ inFlight' = inFlight \cup {CapabilityCall("llm")}
                 /\ nCalls' = Count(nCalls, "llm")
                 /\ pc' = "enhance_llm"
                 /\ UNCHANGED <<analysis, result>>
  /\ settled' = NoneSettled
  /\ UNCHANGED <<mode, enabled, reference, faults, responseText, enhancedQueries,
                 queryIndex, qeSources, webSearchResult, rounds, called, pureVars>>

\* enhanceQueriesWithLLM returns; retryAPIsWithEnhancedQueries logs the queries
\* (reading q.authors of every element) and starts the round of the first query
QueriesGenerated ==
  /\ pc = "enhance_llm"
  /\ \E response \in QueryResponses :
       LET queries == enhanceQueriesWithLLM(reference, response)
       IN  /\ responseText' = response
           /\ enhancedQueries' = queries
           /\ IF \E i \in 1..Len(queries) : ~queries[i].hasAuthors
                THEN /\ pc' = "threw"
                     /\ inFlight' = inFlight \ {CapabilityCall("llm")}
                     /\ UNCHANGED <<queryIndex, rounds, settled>>
              ELSE /\ pc' = "enhance_round"
                   /\ queryIndex' = 1
                   /\ StartRound("query_enhanced", enhancedReference(reference, queries[1]))
  /\ UNCHANGED <<mode, enabled, reference, faults, sources, apiSources, qeSources,
                 webSearchResult, analysis, result, called, nCalls, pureVars>>

\* one round of retryAPIsWithEnhancedQueries is complete: the loop goes on with the
\* next query, or the function returns and the run exits early or searches the web
EnhancedRoundJoins ==
  /\ pc = "enhance_round"
  /\ AllSettled
  /\ LET results == Results("query_enhanced")
         collected == qeSources \o results
         foundMatch == \E i \in 1..Len(results) :
                         results[i].found /\ RGt(results[i].matchScore, <<7, 10>>)
         all == sources \o collected
         enhancedMatch == findBestMatch(collected)
     IN  IF ~foundMatch /\ queryIndex < Len(enhancedQueries)
           THEN /\ qeSources' = collected
                /\ queryIndex' = queryIndex + 1
                /\ StartRound("query_enhanced",
                              enhancedReference(reference, enhancedQueries[queryIndex + 1]))
                /\ UNCHANGED <<pc, sources, responseText, enhancedQueries, analysis,
                               result, nCalls>>
         ELSE /\ qeSources' = <<>>
              /\ queryIndex' = 0
              /\ responseText' = responseText
              /\ enhancedQueries' = <<>>
              /\ settled' = NoneSettled
              /\ sources' = all
              /\ rounds' = rounds
              /\ IF enhancedMatch # Null /\ RGt(enhancedMatch.matchScore, <<7, 10>>)
                   THEN Finish(all)
                 ELSE /\ inFlight' = inFlight \cup {CapabilityCall("web")}
                      /\ nCalls' = Count(nCalls, "web")
                      /\ pc' = "web"
                      /\ UNCHANGED <<analysis, result>>
  /\ UNCHANGED <<mode, enabled, reference, faults, apiSources, webSearchResult, called,
                 pureVars>>

\* searchWebForReference returns; a found result joins allSources, and the run
\* analyses (the early exit at confidence >= 0.70 and the final analysis run the
\* same two calls)
WebSearchReturns ==
  /\ pc = "web"
  /\ \E outcome \in WebOutcomes :
       LET Analyze(web, all) ==
             /\ webSearchResult' = web
             /\ sources' = all
             /\ Finish(all)
           Collect(web) == Analyze(web, IF web.found THEN Append(sources, web) ELSE sources)
       IN  Collect(searchWebForReference(reference, outcome))
  /\ UNCHANGED <<mode, enabled, reference, settled, faults, apiSources, responseText,
                 enhancedQueries, queryIndex, qeSources, rounds, called, pureVars>>

\* generateExplanation returns; buildValidationExplanation builds the unverified
\* explanation and the run returns
ExplanationReturns ==
  /\ pc = "explain"
  /\ \E response \in ExplainResponses :
       result' = ValidationResult(analysis, sources,
                   buildValidationExplanation(analysis.status, analysis.issues, sources,
                                              generateExplanation(response)))
  /\ inFlight' = {}
  /\ pc' = "done"
  /\ UNCHANGED <<mode, enabled, reference, settled, faults, sources, apiSources,
                 responseText, enhancedQueries, queryIndex, qeSources, webSearchResult,
                 analysis, rounds, called, nCalls, pureVars>>

\* the connector the simple run awaits returns (or rejects, which the try/catch
\* swallows); the run then sleeps for the configured delay
SimpleConnectorReturns ==
  /\ pc = "simple_call"
  /\ \E call \in ConnectorCalls :
       \E outcome \in Outcomes(call.name, reference) :
         /\ IsFault(outcome) => faults < MaxFaults
         /\ faults' = IF IsFault(outcome) THEN faults + 1 ELSE faults
         /\ sources' = IF outcome.kind = "reject" THEN sources
                       ELSE Append(sources,
                                   WithStep(Connector(call.name, reference, outcome), "api"))
  /\ inFlight' = {CapabilityCall("sleep")}
  /\ nCalls' = Count(nCalls, "sleep")
  /\ pc' = "simple_sleep"
  /\ UNCHANGED <<mode, enabled, reference, settled, apiSources, responseText,
                 enhancedQueries, queryIndex, qeSources, webSearchResult, analysis,
                 result, rounds, called, pureVars>>

\* the delay is over
SleepReturns ==
  /\ pc = "simple_sleep"
  /\ SimpleContinue(Position(Last(called)), sources)
  /\ UNCHANGED <<mode, enabled, reference, settled, faults, sources, apiSources,
                 responseText, enhancedQueries, queryIndex, qeSources, webSearchResult,
                 rounds, pureVars>>

\* the catch block of validateAllReferences records the error result
CatchValidationError ==
  /\ pc = "threw"
  /\ result' = errorResult
  /\ inFlight' = {}
  /\ pc' = "caught"
  /\ UNCHANGED <<mode, enabled, reference, settled, faults, sources, apiSources,
                 responseText, enhancedQueries, queryIndex, qeSources, webSearchResult,
                 analysis, rounds, called, nCalls, pureVars>>

Next ==
  \/ ValidateReference
  \/ ConnectorSettles
  \/ APIAgentJoins
  \/ QueriesGenerated
  \/ EnhancedRoundJoins
  \/ WebSearchReturns
  \/ ExplanationReturns
  \/ SimpleConnectorReturns
  \/ SleepReturns
  \/ CatchValidationError

Spec == Init /\ [][Next]_vars

\* every awaited call eventually returns or fails
FairSpec == Spec /\ WF_vars(Next)

(***************************************************************************)
(* Inputs of the string-matching specification                             *)
(***************************************************************************)
W_the == <<"t", "h", "e">>
W_Net == <<"N", "e", "t", ".">>
W_neural == <<"n", "e", "u", "r", "a", "l">>
W_neurol == <<"n", "e", "u", "r", "o", "l">>
Vocabulary == {W_the, W_Net, W_neural, W_neurol}

RECURSIVE JoinWords(_)
JoinWords(ws) ==
  IF ws = <<>> THEN <<>>
  ELSE IF Len(ws) = 1 THEN ws[1]
  ELSE ws[1] \o <<" ">> \o JoinWords(Tail(ws))

\* a string of punctuation only
S_dot == <<".">>

\* every string of at most MaxWords words of the vocabulary, the empty string
\* included, and the string of punctuation
TitleInputs ==
  {JoinWords(ws) : ws \in UNION {[1..n -> Vocabulary] : n \in 0..MaxWords}} \cup {S_dot}

SimInit ==
  /\ RunIdle
  /\ AnaIdle
  /\ ParseIdle
  /\ AuxIdle
  /\ simA \in TitleInputs
  /\ simB \in TitleInputs
  /\ simPc = "input"
  /\ simToken = Zero
  /\ simTitle = Zero
  /\ simScores = NoScores

SimTokenSimilarity ==
  /\ simPc = "input"
  /\ simToken' = tokenSimilarity(simA, simB)
  /\ simPc' = "token"
  /\ UNCHANGED <<simA, simB, simTitle, simScores>>
  /\ UNCHANGED <<runVars, anaVars, parseVars, auxVars>>

SimTitleSimilarity ==
  /\ simPc = "token"
  /\ simTitle' = titleSimilarity(simA, simB)
  /\ simPc' = "title"
  /\ UNCHANGED <<simA, simB, simToken, simScores>>
  /\ UNCHANGED <<runVars, anaVars, parseVars, auxVars>>

\* the scores built on the title similarity, for a reference and a record that carry
\* only titles: the connectors' match scores, the web-search confidence and the
\* analyzer's confidence
SimScores ==
  /\ simPc = "title"
  /\ LET ref == Paper(simA, <<>>, <<>>, <<>>)
         work == Paper(simB, <<>>, <<>>, <<>>)
         score == calculateMatchScore(ref, work)
         source == [NewSource("crossref") EXCEPT
                      !.found = TRUE, !.retrievedData = work, !.matchScore = score]
     IN  simScores' = [matchScore |-> score,
                       arxivScore |-> calculateMatchScoreArxiv(ref, work),
                       confidence |-> calculateConfidence(ref, work),
                       analysis |-> AnalyzeBest(ref, source).confidence]
  /\ simPc' = "scores"
  /\ UNCHANGED <<simA, simB, simToken, simTitle>>
  /\ UNCHANGED <<runVars, anaVars, parseVars, auxVars>>

SimNext == SimTokenSimilarity \/ SimTitleSimilarity \/ SimScores

SpecSim == SimInit /\ [][SimNext]_vars

(***************************************************************************)
(* Inputs of the analyzer specification: one call of analyzeResults of     *)
(* either orchestrator on a reference and an accumulated source list       *)
(***************************************************************************)
S_neural == <<"n", "e", "u", "r", "a", "l">>
S_Al_Kim == <<"A", "l", " ", "K", "i", "m">>
S_2019 == <<"2", "0", "1", "9">>
S_nd == <<"n", "d">>

\* references whose title, authors or year the parser may have left empty
AnaReferences ==
  {Paper(t, a, y, <<>>) : t \in {<<>>, S_neural_net},
                         a \in {<<>>, <<S_J_Smith>>, <<S_J_Smith, S_Bo_Lee>>},
                         y \in {<<>>, S_2020, S_nd}}

\* records with every degree of agreement in title, authors and year
AnaWorks ==
  {Paper(t, a, y, <<>>) : t \in {<<>>, S_Neural_Net, S_neural, S_big},
                         a \in {<<>>, <<S_Jane_Smith>>, <<S_Jane_Smith, S_Al_Kim>>,
                                <<S_Al_Kim>>},
                         y \in {<<>>, S_2020, S_2019, S_2015}}

\* match scores a connector can report: the score is computed against the query the
\* round was started with, which is the reference or a variant of it
AnaScores == {Zero, <<1, 2>>, <<13, 20>>, One}

\* the sources a connector can contribute
AnaConnectorSources ==
  {WithStep(Connector("crossref", Null, NoRecord), "api")}
    \cup {[NewSource("crossref") EXCEPT !.found = TRUE, !.retrievedData = w,
                                        !.matchScore = m, !.step = "api"] :
            w \in AnaWorks, m \in AnaScores}

\* the sources the web search can contribute for this reference
AnaWebSources(ref) ==
  {searchWebForReference(ref, Failed)}
    \cup {searchWebForReference(ref, Record(w)) : w \in AnaWorks}

AnaInit ==
  /\ RunIdle
  /\ SimIdle
  /\ ParseIdle
  /\ AuxIdle
  /\ anaReference \in AnaReferences
  /\ anaSources \in {<<>>} \cup {<<src>> : src \in AnaConnectorSources}
                          \cup {<<src>> : src \in AnaWebSources(anaReference)}
  /\ anaPc = "input"
  /\ anaResult = Null

\* analyzeResults of the agent-based orchestrator is called
AnalyzeAgent ==
  /\ anaPc = "input"
  /\ anaResult' = analyzeResultsAgent(anaReference, anaSources)
  /\ anaPc' = "agent"
  /\ UNCHANGED <<anaReference, anaSources, runVars, simVars, parseVars, auxVars>>

\* analyzeResults of the api-only orchestrator is called (it never sees a web source)
AnalyzeApiOnly ==
  /\ anaPc = "input"
  /\ \A i \in 1..Len(anaSources) : anaSources[i].name # "web_search"
  /\ anaResult' = analyzeResultsApiOnly(anaReference, anaSources)
  /\ anaPc' = "api-only"
  /\ UNCHANGED <<anaReference, anaSources, runVars, simVars, parseVars, auxVars>>

AnaNext == AnalyzeAgent \/ AnalyzeApiOnly

SpecAnalyzer == AnaInit /\ [][AnaNext]_vars


(***************************************************************************)
(* regexExtractor: the fields of one reference (parseReferenceText)        *)
(***************************************************************************)
\* \s of the regular expressions, on text that may hold line breaks
IsWhite(c) == c = " " \/ c = "\n"
IsDigit(c) == c \in Digits
IsUpper(c) == c \in UpperLetters
IsLetter(c) == c \in LowerLetters \/ c \in UpperLetters

\* the least of the positions hits, none if there is none
First(hits, none) == IF hits = {} THEN none ELSE CHOOSE p \in hits : \A q \in hits : p <= q

\* first position from p on that holds no digit (Len(t) + 1 if there is none)
RECURSIVE DigitsEnd(_, _)
DigitsEnd(t, p) == IF p <= Len(t) /\ IsDigit(t[p]) THEN DigitsEnd(t, p + 1) ELSE p

\* first position from p on that holds no white space
RECURSIVE WhiteEnd(_, _)
WhiteEnd(t, p) == IF p <= Len(t) /\ IsWhite(t[p]) THEN WhiteEnd(t, p + 1) ELSE p

\* the rest of t from position p on
From(t, p) == SubSeq(t, p, Len(t))

\* .replace(/\s+/g, ' ')
NormalizeWhite(t) ==
  LET first == [p \in 1..Len(t) |->
                  IF ~IsWhite(t[p]) THEN t[p]
                  ELSE IF p = 1 \/ ~IsWhite(t[p - 1]) THEN " "
                  ELSE ""]
  IN  SelectSeq(first, LAMBDA c : c # "")

\* String.prototype.indexOf, as a position from 1 on (0 when needle does not occur)
IndexOf(hay, needle) ==
  First({i \in 1..(Len(hay) - Len(needle) + 1) :
           SubSeq(hay, i, i + Len(needle) - 1) = needle}, 0)

\* String.prototype.split on a separator string
RECURSIVE Split(_, _)
Split(s, sep) ==
  LET Cut(i) == IF i = 0 THEN <<s>>
                ELSE <<SubSeq(s, 1, i - 1)>> \o Split(From(s, i + Len(sep)), sep)
  IN  Cut(IndexOf(s, sep))

\* authors.flatMap(a => a.split(sep))
RECURSIVE SplitAll(_, _)
SplitAll(list, sep) ==
  IF list = <<>> THEN <<>> ELSE Split(Head(list), sep) \o SplitAll(Tail(list), sep)

\* /^et\s*al\.?$/i
IsEtAl(a) ==
  LET Rest(l) == From(l, WhiteEnd(l, 3)) \in {<<"a", "l">>, <<"a", "l", ".">>}
  IN  StartsWith(ToLowerCase(a), <<"e", "t">>) /\ Rest(ToLowerCase(a))

parseAuthors(authorString) ==
  LET semiSpace == <<";", " ">>
      commaAnd == <<",", " ", "a", "n", "d", " ">>
      spaceAnd == <<" ", "a", "n", "d", " ">>
      commaSpace == <<",", " ">>
      semi == <<";">>
      authors == SplitAll(SplitAll(SplitAll(SplitAll(SplitAll(<<authorString>>,
                   semiSpace), commaAnd), spaceAnd), commaSpace), semi)
  IN  SelectSeq(MapSeq(authors, Trim), LAMBDA a : Len(a) > 0 /\ ~IsEtAl(a))

\* where a match of YEAR_PATTERN that starts at p ends (the optional letter is taken
\* when it is there)
YearEnd(t, p) == IF p + 4 <= Len(t) /\ t[p + 4] \in LowerLetters THEN p + 5 ELSE p + 4

\* YEAR_PATTERN /\b(19|20)\d{2}[a-z]?\b/ matches at position p
YearAt(t, p) ==
  /\ p + 3 <= Len(t)
  /\ p = 1 \/ ~IsWordChar(t[p - 1])
  /\ <<t[p], t[p + 1]>> \in {<<"1", "9">>, <<"2", "0">>}
  /\ IsDigit(t[p + 2]) /\ IsDigit(t[p + 3])
  /\ YearEnd(t, p) > Len(t) \/ ~IsWordChar(t[YearEnd(t, p)])

\* the last match of YEAR_PATTERN (every match lies in 1900..2099), '' if none
extractYear(cleanText) ==
  LET yearMatches == {p \in 1..Len(cleanText) : YearAt(cleanText, p)}
      YearText(p) == SubSeq(cleanText, p, YearEnd(cleanText, p) - 1)
  IN  IF yearMatches = {} THEN <<>>
      ELSE YearText(CHOOSE p \in yearMatches : \A q \in yearMatches : q <= p)

\* first position from p on that holds the character c (Len(t) + 1 if there is none)
Find(t, p, c) == First({q \in p..Len(t) : t[q] = c}, Len(t) + 1)

\* QUOTED_TITLE_PATTERN matches at position p: a quote, one or more characters that
\* are not that quote, and the quote again
QuotedAt(t, p) ==
  /\ p <= Len(t) /\ t[p] \in {"\"", "'"}
  /\ Find(t, p + 1, t[p]) <= Len(t)
  /\ Find(t, p + 1, t[p]) > p + 1

\* position of the first match of QUOTED_TITLE_PATTERN, 0 if there is none
QuotedStart(t) ==
  First({p \in 1..Len(t) : QuotedAt(t, p)}, 0)

\* text.split(/\.\s+/)
RECURSIVE SplitSentences(_, _)
SplitSentences(t, p) ==
  LET Cut(q) == IF q = 0 THEN <<From(t, p)>>
                ELSE <<SubSeq(t, p, q - 1)>> \o SplitSentences(t, WhiteEnd(t, q + 1))
  IN  Cut(First({q \in p..(Len(t) - 1) : t[q] = "." /\ IsWhite(t[q + 1])}, 0))

\* a case-insensitive prefix test
StartsWithI(s, p) == StartsWith(ToLowerCase(s), p)

S_in == <<"i", "n">>
S_proceedings == <<"p", "r", "o", "c", "e", "e", "d", "i", "n", "g", "s">>
S_accessed == <<"a", "c", "c", "e", "s", "s", "e", "d">>
S_arxiv == <<"a", "r", "x", "i", "v">>

\* /^In\s+/i and /^Accessed\s/i
StartsWithWord(s, w) == StartsWithI(s, w) /\ Len(s) > Len(w) /\ IsWhite(s[Len(w) + 1])

\* the second "sentence" looks like a title
LooksLikeTitle(potentialTitle) ==
  /\ Len(potentialTitle) > 10
  /\ Len(potentialTitle) < 300
  /\ IsUpper(potentialTitle[1])
  /\ ~StartsWithWord(potentialTitle, S_accessed)
  /\ ~StartsWith(potentialTitle, <<"h", "t", "t", "p">>)
  /\ ~StartsWith(potentialTitle, <<"a", "r", "X", "i", "v">>)
  /\ ~StartsWithWord(potentialTitle, S_in)
  /\ ~StartsWithI(potentialTitle, S_proceedings)

\* first position from p on that holds '.', '!' or '?' (Len(t) + 1 if there is none)
SentenceEnd(t, p) == First({q \in p..Len(t) : t[q] \in {".", "!", "?"}}, Len(t) + 1)

\* where the match of /[A-Z][^.!?]*(?::|[.!?])/ that starts at p ends, 0 if none starts
\* there: at the first '.', '!' or '?', else at the last ':'
SegmentEnd(t, p) ==
  LET colons == {q \in (p + 1)..Len(t) : t[q] = ":"}
      End(e) == IF e <= Len(t) THEN e
                ELSE IF colons = {} THEN 0
                ELSE CHOOSE q \in colons : \A r \in colons : r <= q
  IN  IF IsUpper(t[p]) THEN End(SentenceEnd(t, p + 1)) ELSE 0

\* /^[A-Z][a-z]+,\s*[A-Z][A-Z]?\./: a family name, a comma and one or two initials
RECURSIVE LowerEnd(_, _)
LowerEnd(t, p) == IF p <= Len(t) /\ t[p] \in LowerLetters THEN LowerEnd(t, p + 1) ELSE p

LooksLikeAuthor(s) ==
  LET Initials(p) ==
        /\ p <= Len(s) /\ IsUpper(s[p])
        /\ \/ p + 1 <= Len(s) /\ s[p + 1] = "."
           \/ p + 2 <= Len(s) /\ IsUpper(s[p + 1]) /\ s[p + 2] = "."
      Comma(p) == p > 2 /\ p <= Len(s) /\ s[p] = "," /\ Initials(WhiteEnd(s, p + 1))
  IN  s # <<>> /\ IsUpper(s[1]) /\ Comma(LowerEnd(s, 2))

\* .replace(/[.!?:]$/, '')
DropFinalPunctuation(s) ==
  IF s # <<>> /\ s[Len(s)] \in {".", "!", "?", ":"} THEN SubSeq(s, 1, Len(s) - 1) ELSE s

extractTitle(text) ==
  LET quoted == QuotedStart(text)
      Quoted(p) == SubSeq(text, p + 1, Find(text, p + 1, text[p]) - 1)
      sentences == SplitSentences(text, 1)
      starts == {p \in 1..Len(text) : SegmentEnd(text, p) > 0}
      Segment(p) == SubSeq(text, p, SegmentEnd(text, p))
      Fallback(potentialTitle) ==
        IF /\ ~LooksLikeAuthor(potentialTitle)
           /\ ~StartsWithWord(potentialTitle, S_in)
           /\ ~StartsWithI(potentialTitle, S_proceedings)
           /\ ~StartsWithI(potentialTitle, S_arxiv)
           /\ Len(potentialTitle) > 10
           /\ Len(potentialTitle) < 300
        THEN Trim(DropFinalPunctuation(potentialTitle))
        ELSE <<>>
  IN  IF quoted > 0 /\ Len(Quoted(quoted)) > 5 THEN Trim(Quoted(quoted))
      ELSE IF Len(sentences) >= 2 /\ sentences[2] # <<>> /\ LooksLikeTitle(sentences[2])
      THEN Trim(sentences[2])
      ELSE IF starts # {} THEN Fallback(Segment(First(starts, 0)))
      ELSE <<>>

\* .replace(QUOTED_TITLE_PATTERN, ''): the first match is removed
RemoveQuoted(s) ==
  LET Remove(p) == IF p = 0 THEN s
                   ELSE SubSeq(s, 1, p - 1) \o From(s, Find(s, p + 1, s[p]) + 1)
  IN  Remove(QuotedStart(s))

\* .replace(/\.\s*$/, '')
DropFinalPeriod(s) ==
  LET Drop(r) == IF r # <<>> /\ r[Len(r)] = "." THEN SubSeq(r, 1, Len(r) - 1) ELSE s
  IN  Drop(TrimRight(s))

\* .replace(/^\d+\s*/, '')
DropLeadingNumber(s) ==
  IF s # <<>> /\ IsDigit(s[1]) THEN From(s, WhiteEnd(s, DigitsEnd(s, 1))) ELSE s

\* /[,\s]and\s/i matches somewhere in s
HasAnd(s) ==
  \E p \in 1..(Len(s) - 4) :
    /\ s[p] = "," \/ IsWhite(s[p])
    /\ ToLowerCase(SubSeq(s, p + 1, p + 3)) = <<"a", "n", "d">>
    /\ IsWhite(s[p + 4])

extractAuthorsFromReference(text, title, year) ==
  LET beforeTitle ==
        IF title # <<>> /\ Includes(text, title)
        THEN SubSeq(text, 1, IndexOf(text, title) - 1)
        ELSE IF year # <<>> /\ IndexOf(text, year) > 1
        THEN SubSeq(text, 1, IndexOf(text, year) - 1)
        ELSE text
      firstQuote == Find(text, 1, "\"")
      beforeQuote == SubSeq(text, 1, firstQuote - 1)
      authorText ==
        IF /\ firstQuote > 1 /\ firstQuote <= Len(text)
           /\ 2 * (firstQuote - 1) < Len(text)
           /\ HasAnd(beforeQuote) \/ \E p \in 1..Len(beforeQuote) : beforeQuote[p] = ","
        THEN beforeQuote
        ELSE beforeTitle
      Clean(s) ==
        Trim(DropLeadingNumber(DropFinalPeriod(
          SelectSeq(RemoveQuoted(s), LAMBDA c : c # "\""))))
  IN  SubSeq(parseAuthors(Clean(authorText)), 1, Min(10, Len(parseAuthors(Clean(authorText)))))

\* the fields of a reference the strategies and their callers read; the DOI, the
\* URLs, the venue and the identifier are extracted from the same text and never
\* read by a strategy
parseReferenceText(text, citationNumber, relativeIndex) ==
  LET Parse(cleanText) ==
        LET Fields(title, year) ==
              [raw_text |-> cleanText,
               title |-> title,
               authors |-> extractAuthorsFromReference(cleanText, title, year),
               year |-> year,
               citation_number |-> citationNumber,
               relativeIndex |-> relativeIndex]
        IN  Fields(extractTitle(cleanText), extractYear(cleanText))
  IN  Parse(Trim(NormalizeWhite(text)))

(***************************************************************************)
(* regexExtractor: the strategies                                          *)
(***************************************************************************)
\* fewest entries that make a strategy's output the answer
MinEntries == 3
\* shortest entry text the numbered strategies keep
MinEntryLen == 20
\* an author-year entry is longer than this
AuthorYearMinLen == 50

\* .replace(/([a-z])-\s*\n\s*([a-z])/gi, '$1$2'): a hyphen at a line break between
\* two letters goes, and the white space after it
RECURSIVE Dehyphenate(_)
Dehyphenate(t) ==
  LET Broken(p, e) ==
        /\ IsLetter(t[p]) /\ t[p + 1] = "-"
        /\ e <= Len(t) /\ IsLetter(t[e])
        /\ \E q \in (p + 2)..(e - 1) : t[q] = "\n"
      Join(p) ==
        IF p = 0 THEN t
        ELSE SubSeq(t, 1, p) \o <<t[WhiteEnd(t, p + 2)]>>
             \o Dehyphenate(From(t, WhiteEnd(t, p + 2) + 1))
  IN  Join(First({p \in 1..(Len(t) - 3) : Broken(p, WhiteEnd(t, p + 2))}, 0))

\* the characters step 3 replaces, each written as its code point
UnicodeSpaces == {"U+2009", "U+2028"}
UnicodeDashes == {"U+2013", "U+2014"}
DoubleCurlyQuotes == {"U+201C", "U+201D"}
SingleCurlyQuotes == {"U+2018", "U+2019"}

NormalizeChar(c) ==
  IF c \in UnicodeSpaces THEN " "
  ELSE IF c \in UnicodeDashes THEN "-"
  ELSE IF c \in DoubleCurlyQuotes THEN "\""
  ELSE IF c \in SingleCurlyQuotes THEN "'"
  ELSE c

normalizeBibliographyText(text) ==
  Trim(NormalizeWhite(MapSeq(NormalizeWhite(Dehyphenate(text)), NormalizeChar)))

\* the number a run of digits writes
Number(t, from, to) == parseInt(SubSeq(t, from, to - 1))[1]

\* reference.title || reference.authors.length > 0
Meaningful(ref) == ref.title # <<>> \/ Len(ref.authors) > 0

\* the matches of BRACKETED_REF_PATTERN from position p on; the text holds no line
\* break, so an entry runs to the next '[' or to the end of the text
RECURSIVE BracketedMatches(_, _)
BracketedMatches(t, p) ==
  LET Match(d, k) ==
        LET Body(s) ==
              IF s = 0 THEN BracketedMatches(t, p + 1)
              ELSE <<[number |-> Number(t, p + 1, d),
                      text |-> SubSeq(t, s, Find(t, s, "[") - 1),
                      index |-> p - 1]>>
                   \o BracketedMatches(t, Find(t, s, "["))
        IN  IF d > p + 1 /\ d <= Len(t) /\ t[d] = "]"
            THEN Body(IF k <= Len(t) /\ t[k] # "[" THEN k
                      ELSE IF k > d + 1 THEN k - 1 ELSE 0)
            ELSE BracketedMatches(t, p + 1)
  IN  IF p > Len(t) THEN <<>>
      ELSE IF t[p] = "["
      THEN Match(DigitsEnd(t, p + 1), WhiteEnd(t, DigitsEnd(t, p + 1) + 1))
      ELSE BracketedMatches(t, Find(t, p, "["))

extractBracketedReferences(text) ==
  MapSeq(BracketedMatches(text, 1),
         LAMBDA m : parseReferenceText(Trim(m.text), m.number, m.index))

\* (?:^|\s) matches at p: where what follows it starts (0 if it does not match)
Boundary(t, p) ==
  IF p = 1 /\ ~IsWhite(t[1]) THEN 1 ELSE IF IsWhite(t[p]) THEN p + 1 ELSE 0

\* the entries between the boundaries ms: the text from one boundary to the next,
\* without its label, numbered by Num, kept when long enough and meaningful
SliceEntries(t, ms, Strip(_), Num(_)) ==
  LET Text(i) ==
        Trim(Strip(Trim(SubSeq(t, ms[i].index + 1,
                               IF i < Len(ms) THEN ms[i + 1].index ELSE Len(t)))))
      Entry(i, refText) ==
        IF Len(refText) >= MinEntryLen
        THEN parseReferenceText(refText, Num(i), ms[i].index)
        ELSE Null
      all == [i \in 1..Len(ms) |-> Entry(i, Text(i))]
  IN  SelectSeq(all, LAMBDA ref : ref # Null /\ Meaningful(ref))

\* (\d+)\s*(?=[A-Za-z]) matches from position s on
GluedAt(t, s) ==
  LET Letter(k) == k <= Len(t) /\ IsLetter(t[k])
  IN  s > 0 /\ DigitsEnd(t, s) > s /\ Letter(WhiteEnd(t, DigitsEnd(t, s)))

\* the matches of /(?:^|\s)(\d+)\s*(?=[A-Za-z])/g from position p on
RECURSIVE GluedMatches(_, _)
GluedMatches(t, from) ==
  LET Match(p, s, d, k) ==
        <<[number |-> Number(t, s, d), index |-> p - 1,
           charBeforeNumber |-> IF s > 1 THEN t[s - 1] ELSE " ",
           charAfterNumber |-> t[k]]>>
        \o GluedMatches(t, k)
      At(p, s) == Match(p, s, DigitsEnd(t, s), WhiteEnd(t, DigitsEnd(t, s)))
      Take(p) == IF p = 0 THEN <<>> ELSE At(p, Boundary(t, p))
  IN  Take(First({p \in from..Len(t) : GluedAt(t, Boundary(t, p))}, 0))

\* a scan that tolerates one missed number only
RECURSIVE KeepWithinTwo(_, _)
KeepWithinTwo(matches, lastAcceptedNumber) ==
  IF matches = <<>> THEN <<>>
  ELSE IF /\ Head(matches).number >= lastAcceptedNumber + 1
          /\ Head(matches).number <= lastAcceptedNumber + 2
  THEN <<Head(matches)>> \o KeepWithinTwo(Tail(matches), Head(matches).number)
  ELSE KeepWithinTwo(Tail(matches), lastAcceptedNumber)

\* the numbers next to or up to 3 above the last accepted one
RECURSIVE KeepSequential(_, _)
KeepSequential(matches, lastAcceptedNumber) ==
  IF matches = <<>> THEN <<>>
  ELSE IF /\ Head(matches).number >= lastAcceptedNumber + 1
          /\ Head(matches).number <= lastAcceptedNumber + 3
  THEN <<Head(matches)>> \o KeepSequential(Tail(matches), Head(matches).number)
  ELSE KeepSequential(Tail(matches), lastAcceptedNumber)

\* results.forEach((ref, index) => { ref.citation_number = index + 1 })
Renumber(results) == [i \in 1..Len(results) |-> [results[i] EXCEPT !.citation_number = i]]

\* the detected numbers in text order: 1 to 100 and not part of a larger number
TwoColumnMatches(text) ==
  SelectSeq(GluedMatches(text, 1),
            LAMBDA m : /\ m.number >= 1 /\ m.number <= 100
                       /\ ~(IsDigit(m.charBeforeNumber) \/ IsDigit(m.charAfterNumber)))

extractTwoColumnReferences(text) ==
  LET matches == TwoColumnMatches(text)
      Sliced(filteredMatches) ==
        IF Len(filteredMatches) >= 3
        THEN SliceEntries(text, filteredMatches, DropLeadingNumber, LAMBDA i : i)
        ELSE <<>>
  IN  Renumber(Sliced(KeepSequential(matches, 0)))

\* (\d+)\.\s+[A-Z] matches from position s on
PeriodLabelAt(t, s) ==
  LET Label(d) ==
        /\ d > s /\ d < Len(t) /\ t[d] = "." /\ IsWhite(t[d + 1])
        /\ WhiteEnd(t, d + 1) <= Len(t) /\ IsUpper(t[WhiteEnd(t, d + 1)])
  IN  s > 0 /\ s <= Len(t) /\ Label(DigitsEnd(t, s))

\* first position from q on where \s+\d+\.\s+[A-Z] or the end of the text follows
EntryEnd(t, q) ==
  First({r \in q..Len(t) : IsWhite(t[r]) /\ PeriodLabelAt(t, WhiteEnd(t, r))}, Len(t) + 1)

\* the matches of /(?:^|\s)(\d+)\.\s+([A-Z][^]*?)(?=\s+\d+\.\s+[A-Z]|$)/g from p on
RECURSIVE PeriodMatches(_, _)
PeriodMatches(t, from) ==
  LET Match(p, s, d, c) ==
        <<[number |-> Number(t, s, d),
           text |-> SubSeq(t, c, EntryEnd(t, c + 1) - 1),
           index |-> p - 1]>>
        \o PeriodMatches(t, EntryEnd(t, c + 1))
      At(p, s) == Match(p, s, DigitsEnd(t, s), WhiteEnd(t, DigitsEnd(t, s) + 1))
      Take(p) == IF p = 0 THEN <<>> ELSE At(p, Boundary(t, p))
  IN  Take(First({p \in from..Len(t) : PeriodLabelAt(t, Boundary(t, p))}, 0))

extractPeriodNumberedReferences(text) ==
  LET Entry(m, refText) ==
        IF Len(refText) >= MinEntryLen /\ m.number >= 1 /\ m.number <= 1000
        THEN parseReferenceText(refText, m.number, m.index)
        ELSE Null
      all == MapSeq(PeriodMatches(text, 1), LAMBDA m : Entry(m, Trim(m.text)))
  IN  SelectSeq(all, LAMBDA ref : ref # Null /\ Meaningful(ref))

\* text.split(/\n\n+/)
RECURSIVE SplitParagraphs(_, _)
SplitParagraphs(t, p) ==
  LET Cut(q) ==
        IF q = 0 THEN <<From(t, p)>>
        ELSE <<SubSeq(t, p, q - 1)>>
             \o SplitParagraphs(t, First({r \in q..Len(t) : t[r] # "\n"}, Len(t) + 1))
  IN  Cut(First({q \in p..(Len(t) - 1) : t[q] = "\n" /\ t[q + 1] = "\n"}, 0))

\* the text holds no line break, so it is one entry and is found at its own start
extractAuthorYearReferences(text) ==
  LET entries == SplitParagraphs(text, 1)
      Entry(index, trimmed) ==
        IF Len(trimmed) > AuthorYearMinLen /\ Includes(text, trimmed)
        THEN parseReferenceText(trimmed, index, IndexOf(text, trimmed) - 1)
        ELSE Null
      all == [i \in 1..Len(entries) |-> Entry(i, Trim(entries[i]))]
  IN  SelectSeq(all, LAMBDA ref : ref # Null /\ Meaningful(ref))

\* (\d+)[\.\)]\s+([A-Z]) matches from position s on
NumberedLabelAt(t, s) ==
  LET Label(d) ==
        /\ d > s /\ d < Len(t) /\ t[d] \in {".", ")"} /\ IsWhite(t[d + 1])
        /\ WhiteEnd(t, d + 1) <= Len(t) /\ IsUpper(t[WhiteEnd(t, d + 1)])
  IN  s > 0 /\ s <= Len(t) /\ Label(DigitsEnd(t, s))

\* \[(\d+)\]\s+ matches from position s on
BracketLabelAt(t, s) ==
  LET Label(b) == b > s + 1 /\ b < Len(t) /\ t[b] = "]" /\ IsWhite(t[b + 1])
  IN  s > 0 /\ s <= Len(t) /\ t[s] = "[" /\ Label(DigitsEnd(t, s + 1))

\* the matches of /(?:^|\s)(\d+)[\.\)]\s+([A-Z])|(?:^|\s)\[(\d+)\]\s+/g from p on
RECURSIVE BoundaryMatches(_, _)
BoundaryMatches(t, from) ==
  LET Found(p, number, end) ==
        <<[number |-> number, index |-> p - 1]>> \o BoundaryMatches(t, end)
      At(p, s) ==
        IF NumberedLabelAt(t, s)
        THEN Found(p, Number(t, s, DigitsEnd(t, s)), WhiteEnd(t, DigitsEnd(t, s) + 1) + 1)
        ELSE Found(p, Number(t, s + 1, DigitsEnd(t, s + 1)),
                   WhiteEnd(t, DigitsEnd(t, s + 1) + 1))
      Take(p) == IF p = 0 THEN <<>> ELSE At(p, Boundary(t, p))
  IN  Take(First({p \in from..Len(t) : \/ NumberedLabelAt(t, Boundary(t, p))
                                       \/ BracketLabelAt(t, Boundary(t, p))}, 0))

\* \s(\d+)(?=\s*[A-Z]) matches at position p
SequentialAt(t, p) ==
  LET Capital(k) == k <= Len(t) /\ IsUpper(t[k])
  IN  IsWhite(t[p]) /\ DigitsEnd(t, p + 1) > p + 1
      /\ Capital(WhiteEnd(t, DigitsEnd(t, p + 1)))

\* the matches of /\s(\d+)(?=\s*[A-Z])/g from p on; index skips the space
RECURSIVE SequentialMatches(_, _)
SequentialMatches(t, from) ==
  LET Take(p) ==
        IF p = 0 THEN <<>>
        ELSE <<[number |-> Number(t, p + 1, DigitsEnd(t, p + 1)), index |-> p]>>
             \o SequentialMatches(t, DigitsEnd(t, p + 1))
  IN  Take(First({p \in from..Len(t) : SequentialAt(t, p)}, 0))

\* .replace(/^(\d+[\.\)]|\[\d+\])\s*/, '')
DropLeadingLabel(s) ==
  LET Numbered(d) == d > 1 /\ d <= Len(s) /\ s[d] \in {".", ")"}
      Bracketed(d) == s # <<>> /\ s[1] = "[" /\ d > 2 /\ d <= Len(s) /\ s[d] = "]"
  IN  IF Numbered(DigitsEnd(s, 1)) THEN From(s, WhiteEnd(s, DigitsEnd(s, 1) + 1))
      ELSE IF Bracketed(DigitsEnd(s, 2)) THEN From(s, WhiteEnd(s, DigitsEnd(s, 2) + 1))
      ELSE s

extractFallbackReferences(text) ==
  LET matches ==
        SelectSeq(BoundaryMatches(text, 1), LAMBDA m : m.number >= 1 /\ m.number <= 1000)
      seqMatches ==
        SelectSeq(SequentialMatches(text, 1), LAMBDA m : m.number >= 1 /\ m.number <= 100)
  IN  IF Len(matches) >= 3
      THEN SliceEntries(text, matches, DropLeadingLabel, LAMBDA i : matches[i].number)
      ELSE IF Len(seqMatches) >= 3
      THEN SliceEntries(text, seqMatches, DropLeadingNumber, LAMBDA i : seqMatches[i].number)
      ELSE <<>>

(***************************************************************************)
(* One call of extractReferencesWithRegex                                  *)
(***************************************************************************)
\* most entries of a bibliography, and the highest label an entry carries
MaxEntries == 4
MaxLabel == 4

\* the strategies in the order extractReferencesWithRegex consults them
Strategies == <<"bracketed", "two-column", "period-numbered", "author-year", "fallback">>

\* what a strategy extracts from the normalized text
Extracted(strategy, normalizedText) ==
  CASE strategy = "bracketed" -> extractBracketedReferences(normalizedText)
    [] strategy = "two-column" -> extractTwoColumnReferences(normalizedText)
    [] strategy = "period-numbered" -> extractPeriodNumberedReferences(normalizedText)
    [] strategy = "author-year" -> extractAuthorYearReferences(normalizedText)
    [] strategy = "fallback" -> extractFallbackReferences(normalizedText)

\* the bodies of the entries as the document holds them: the first one has a word
\* broken at a line end, every third one is too short to be a reference
S_Smith == <<"S", "m", "i", "t", "h", " ", "J", ".", " ", "A", " ", "G", "r", "e", "a", "t", " ", "T", "i", "-", "\n", "t", "l", "e", ".", " ", "J", "o", "u", "r", "n", "a", "l", " ", "X", ",", " ", "2", "0", "2", "0", ".">>
S_Doe == <<"D", "o", "e", " ", "A", ".", " ", "A", "n", "o", "t", "h", "e", "r", " ", "T", "i", "t", "l", "e", ".", " ", "C", "o", "n", "f", " ", "Y", ",", " ", "2", "0", "1", "9", ".">>
S_Lee == <<"L", "e", "e", " ", "B", ".", " ", "Y", "e", "t", " ", "A", "n", "o", "t", "h", "e", "r", " ", "T", "i", "t", "l", "e", ".", " ", "C", "o", "n", "f", " ", "Z", ",", " ", "2", "0", "1", "8", ".">>
S_See == <<"S", "e", "e", " ", "a", "b", "o", "v", "e", ".">>
EntryBodies == <<S_Smith, S_Doe, S_Lee>>
EntryBody(i, short) ==
  IF short /\ i = 2 THEN S_See ELSE EntryBodies[((i - 1) % Len(EntryBodies)) + 1]

\* how the document writes the label n of an entry
LabelStyles == {"bracket", "glued", "spaced", "period", "paren", "plain"}
EntryLabel(style, n) ==
  CASE style = "bracket" -> <<"[", DigitSeq[n + 1], "]", " ">>
    [] style = "glued" -> <<DigitSeq[n + 1]>>
    [] style = "spaced" -> <<DigitSeq[n + 1], " ">>
    [] style = "period" -> <<DigitSeq[n + 1], ".", " ">>
    [] style = "paren" -> <<DigitSeq[n + 1], ")", " ">>
    [] style = "plain" -> <<>>

\* a bibliography: one entry per line, each with its label
RECURSIVE Bibliography(_, _, _, _)
Bibliography(style, labels, short, i) ==
  IF i > Len(labels) THEN <<>>
  ELSE EntryLabel(style, labels[i]) \o EntryBody(i, short)
       \o (IF i < Len(labels) THEN <<"\n">> ELSE <<>>)
       \o Bibliography(style, labels, short, i + 1)

LabelSeqs == UNION {[1..n -> 1..MaxLabel] : n \in 0..MaxEntries}

BibliographyTexts ==
  {Bibliography(style, labels, short, 1) :
     style \in LabelStyles, labels \in LabelSeqs, short \in BOOLEAN}

ParseInit ==
  /\ parseText \in BibliographyTexts
  /\ parsePc = "start"
  /\ parseNormalized = <<>>
  /\ parseTried = <<>>
  /\ parseResult = Null
  /\ RunIdle
  /\ SimIdle
  /\ AnaIdle
  /\ AuxIdle

\* extractReferencesWithRegex is called: the text is normalized first
NormalizeText ==
  /\ parsePc = "start"
  /\ parseNormalized' = normalizeBibliographyText(parseText)
  /\ parsePc' = "bracketed"
  /\ UNCHANGED <<parseText, parseTried, parseResult, runVars, simVars, anaVars, auxVars>>

\* a consultation that is content with two entries
TryFewer(strategy, next) ==
  LET Decide(refs) ==
        /\ parseTried' = Append(parseTried, strategy)
        /\ IF Len(refs) >= 2
           THEN parseResult' = refs /\ parsePc' = "returned"
           ELSE parseResult' = parseResult /\ parsePc' = next
  IN  /\ parsePc = strategy
      /\ Decide(Extracted(strategy, parseNormalized))
      /\ UNCHANGED <<parseText, parseNormalized, runVars, simVars, anaVars, auxVars>>

\* one of the first four strategies is consulted: its output is returned when it
\* has enough entries, else the strategy after it is next
Try(strategy, next) ==
  LET Decide(refs) ==
        /\ parseTried' = Append(parseTried, strategy)
        /\ IF Len(refs) >= MinEntries
           THEN parseResult' = refs /\ parsePc' = "returned"
           ELSE parseResult' = parseResult /\ parsePc' = next
  IN  /\ parsePc = strategy
      /\ Decide(Extracted(strategy, parseNormalized))
      /\ UNCHANGED <<parseText, parseNormalized, runVars, simVars, anaVars, auxVars>>

TryBracketed == Try("bracketed", "two-column")
TryTwoColumn == Try("two-column", "period-numbered")
TryPeriodNumbered == Try("period-numbered", "author-year")
TryAuthorYear == Try("author-year", "fallback")

\* the fallback's output is returned whatever it holds
TryFallback ==
  /\ parsePc = "fallback"
  /\ parseTried' = Append(parseTried, "fallback")
  /\ parseResult' = extractFallbackReferences(parseNormalized)
  /\ parsePc' = "returned"
  /\ UNCHANGED <<parseText, parseNormalized, runVars, simVars, anaVars, auxVars>>

ParseNext ==
  \/ NormalizeText
  \/ TryBracketed
  \/ TryTwoColumn
  \/ TryPeriodNumbered
  \/ TryAuthorYear
  \/ TryFallback

SpecParser == ParseInit /\ [][ParseNext]_vars


(***************************************************************************)
(* extractionOrchestrator: one call of extractReferences                   *)
(***************************************************************************)
MaxRefs == 2

\* an extracted reference: the page number its extractor gave it (null when it gave
\* none) and the page on which the search of the PDF text finds it (0 when it does not)
\* a page number is <<n>>, and <<>> when it is null
NoPage == <<>>
ExReferences == [page_number : {NoPage, <<1>>}, located : {0, 2}]
ExReferenceLists == UNION {[1..n -> ExReferences] : n \in 0..MaxRefs}

\* the detected bibliography section, or null
ExBibliographies == {Null, [startPage |-> 2, endPage |-> 3]}
ExInputs ==
  [useLLM : BOOLEAN, pdfFile : BOOLEAN, bibliography : ExBibliographies, numPages : {3, 5}]

\* bibliography?.startPage || other
StartPageOr(bibliography, other) ==
  IF bibliography # Null THEN bibliography.startPage ELSE other
EndPageOr(bibliography, other) ==
  IF bibliography # Null THEN bibliography.endPage ELSE other

assignPageNumbersToReferences(references, fallbackPage) ==
  [i \in 1..Len(references) |->
     IF references[i].page_number # NoPage THEN references[i]
     ELSE IF references[i].located # 0
          THEN [references[i] EXCEPT !.page_number = <<references[i].located>>]
          ELSE [references[i] EXCEPT !.page_number = <<fallbackPage>>]]

\* the LLM's references, with the page of those the search of the PDF text finds
ImproveLLMReferences(references) ==
  [i \in 1..Len(references) |->
     IF references[i].located # 0
     THEN [references[i] EXCEPT !.page_number = <<references[i].located>>]
     ELSE references[i]]

ExtractionResult(references, startPage, method, error) ==
  [references |-> references,
   bibliographyStartPage |-> startPage,
   bibliographyEndPage |-> EndPageOr(exInput.bibliography, exInput.numPages),
   method |-> method,
   error |-> error]

LLMStartPage == StartPageOr(exInput.bibliography, Max(1, exInput.numPages - 3))

ExInit ==
  /\ RunIdle
  /\ SimIdle
  /\ AnaIdle
  /\ ParseIdle
  /\ StoreIdle
  /\ RateLimiterIdle
  /\ ArxivIdle
  /\ BibIdle
  /\ exInput \in ExInputs
  /\ exPc = "start"
  /\ exCalled = <<>>
  /\ exLlm = "none"
  /\ exResult = Null

ExOthers == <<runVars, simVars, anaVars, parseVars, stVars, vaVars, rlVars, arxivVars, bibVars>>

ExReturn(extractionResult) ==
  /\ exResult' = extractionResult
  /\ exPc' = "returned"

ExInvoke(extractor, at) ==
  /\ exCalled' = Append(exCalled, extractor)
  /\ exPc' = at

\* LLM extraction is enabled and the file is there: the LLM extractor is called
ExCallLLM ==
  /\ exPc = "start"
  /\ exInput.useLLM /\ exInput.pdfFile
  /\ ExInvoke("llm", "llm")
  /\ UNCHANGED <<exInput, exLlm, exResult, ExOthers>>

\* the LLM extractor returns references: they are returned when there are some,
\* and GROBID is called from inside the try block when there are none
ExLLMReturns ==
  /\ exPc = "llm"
  /\ \E references \in ExReferenceLists :
       IF Len(references) = 0
       THEN /\ exLlm' = "empty"
            /\ ExInvoke("grobid", "grobid-in-try")
            /\ UNCHANGED exResult
       ELSE /\ exLlm' = "references"
            /\ ExReturn(ExtractionResult(ImproveLLMReferences(references),
                                         LLMStartPage, "llm", "none"))
            /\ UNCHANGED exCalled
  /\ UNCHANGED <<exInput, ExOthers>>

\* the LLM extractor throws: the catch block calls GROBID
ExLLMThrows ==
  /\ exPc = "llm"
  /\ exLlm' = "error"
  /\ ExInvoke("grobid", "grobid-in-catch")
  /\ UNCHANGED <<exInput, exResult, ExOthers>>

\* GROBID, called because the LLM found nothing, returns
ExGrobidInTryReturns ==
  /\ exPc = "grobid-in-try"
  /\ \E grobidRefs \in ExReferenceLists :
       IF Len(grobidRefs) > 0
       THEN ExReturn(ExtractionResult(
                       assignPageNumbersToReferences(grobidRefs, LLMStartPage),
                       LLMStartPage, "grobid", "llm-empty"))
       ELSE ExReturn(ExtractionResult(<<>>, LLMStartPage, "llm", "none"))
  /\ UNCHANGED <<exInput, exCalled, exLlm, ExOthers>>

\* GROBID, called because the LLM found nothing, throws inside the try block: the
\* catch block of the same try calls GROBID
ExGrobidInTryThrows ==
  /\ exPc = "grobid-in-try"
  /\ ExInvoke("grobid", "grobid-in-catch")
  /\ UNCHANGED <<exInput, exLlm, exResult, ExOthers>>

ExGrobidInCatchReturns ==
  /\ exPc = "grobid-in-catch"
  /\ \E grobidRefs \in ExReferenceLists :
       ExReturn(ExtractionResult(
                  assignPageNumbersToReferences(grobidRefs, LLMStartPage),
                  LLMStartPage, "grobid", "llm-failed"))
  /\ UNCHANGED <<exInput, exCalled, exLlm, ExOthers>>

ExGrobidInCatchThrows ==
  /\ exPc = "grobid-in-catch"
  /\ ExReturn(ExtractionResult(<<>>, StartPageOr(exInput.bibliography, exInput.numPages),
                               "llm", "both-failed"))
  /\ UNCHANGED <<exInput, exCalled, exLlm, ExOthers>>

\* GROBID is the extractor but the file is not there
ExNoFile ==
  /\ exPc = "start"
  /\ ~exInput.pdfFile
  /\ ExReturn(ExtractionResult(<<>>, StartPageOr(exInput.bibliography, exInput.numPages),
                               "grobid", "no-file"))
  /\ UNCHANGED <<exInput, exCalled, exLlm, ExOthers>>

\* LLM extraction is disabled: GROBID is called
ExCallGrobid ==
  /\ exPc = "start"
  /\ ~exInput.useLLM /\ exInput.pdfFile
  /\ ExInvoke("grobid", "grobid")
  /\ UNCHANGED <<exInput, exLlm, exResult, ExOthers>>

ExGrobidReturns ==
  /\ exPc = "grobid"
  /\ \E references \in ExReferenceLists :
       ExReturn(ExtractionResult(
                  assignPageNumbersToReferences(references, LLMStartPage),
                  StartPageOr(exInput.bibliography, 1), "grobid", "none"))
  /\ UNCHANGED <<exInput, exCalled, exLlm, ExOthers>>

\* nothing catches what GROBID throws here: the call of extractReferences rejects
ExGrobidThrows ==
  /\ exPc = "grobid"
  /\ exPc' = "thrown"
  /\ UNCHANGED <<exInput, exCalled, exLlm, exResult, ExOthers>>

ExNext ==
  \/ ExCallLLM \/ ExLLMReturns \/ ExLLMThrows
  \/ ExGrobidInTryReturns \/ ExGrobidInTryThrows
  \/ ExGrobidInCatchReturns \/ ExGrobidInCatchThrows
  \/ ExNoFile \/ ExCallGrobid \/ ExGrobidReturns \/ ExGrobidThrows

SpecExtraction == ExInit /\ [][ExNext]_vars

(***************************************************************************)
(* appStore and ReferenceList: validating all references while the user    *)
(* edits them                                                              *)
(***************************************************************************)
MaxReferences == 2
MaxEdits == 2

S_A == <<"A">>
S_B == <<"B">>
StoreTitles == {<<>>, S_A, S_B}

\* the references of a loaded document: their ids are 1..n
StoreReferenceLists ==
  UNION {{[i \in 1..n |-> [id |-> i, title |-> titles[i]]] : titles \in [1..n -> StoreTitles]} :
         n \in 0..MaxReferences}

\* what validateReference can return, status by status
StoreStatuses == {"verified", "unverified"}

\* a validation result; validated is the reference data the validation read
ValidationResultOf(ref, status, issues) ==
  [referenceId |-> ref.id, status |-> status, issues |-> issues, validated |-> ref.title]

\* the result validateAllReferences builds when validateReference throws
ErrorResult(ref) ==
  ValidationResultOf(ref, "unverified", <<[type |-> "not_found", severity |-> "error"]>>)

\* reference.title || `Reference ${i + 1}`, for the reference at position k = i + 1
S_Reference == <<"R", "e", "f", "e", "r", "e", "n", "c", "e", " ">>
RECURSIVE ToDecimal(_)
ToDecimal(n) ==
  IF n < 10 THEN <<DigitSeq[n + 1]>> ELSE ToDecimal(n \div 10) \o <<DigitSeq[(n % 10) + 1]>>
CurrentLabel(ref, k) == IF ref.title # <<>> THEN ref.title ELSE S_Reference \o ToDecimal(k)

updateReference(id, updates) ==
  /\ stReferences' = [i \in 1..Len(stReferences) |->
                        IF stReferences[i].id = id
                        THEN [stReferences[i] EXCEPT !.title = updates]
                        ELSE stReferences[i]]
  /\ stResults' = [k \in DOMAIN stResults \ {id} |-> stResults[k]]

setValidationResult(validationResult) ==
  stResults' = [k \in DOMAIN stResults \cup {validationResult.referenceId} |->
                  IF k = validationResult.referenceId THEN validationResult
                  ELSE stResults[k]]

\* a progress that counts the reference being validated as completed
LoopProgressAhead(references, k) ==
  [total |-> Len(references), completed |-> k, current |-> CurrentLabel(references[k], k)]

\* the call of onProgress at the head of the loop body for position k
LoopProgress(references, k) ==
  [total |-> Len(references), completed |-> k - 1, current |-> CurrentLabel(references[k], k)]

FinalProgress(references) ==
  [total |-> Len(references), completed |-> Len(references), current |-> Null]

VaInit ==
  /\ RunIdle
  /\ SimIdle
  /\ AnaIdle
  /\ ParseIdle
  /\ ExIdle
  /\ RateLimiterIdle
  /\ ArxivIdle
  /\ BibIdle
  /\ stReferences \in StoreReferenceLists
  /\ stResults = NoResults
  /\ stProgress = Null
  /\ stIsValidating = FALSE
  /\ stEdits = 0
  /\ vaReferences = <<>>
  /\ vaI = 0
  /\ vaPc = "idle"
  /\ vaResults = <<>>
  /\ vaProgressLog = <<>>
  /\ vaOnResult = <<>>

VaOthers == <<runVars, simVars, anaVars, parseVars, exVars, rlVars, arxivVars, bibVars>>

\* the user saves an edit of a reference; the continuation of an await that has
\* resolved runs before any user event
EditReference ==
  /\ vaPc # "returned"
  /\ stEdits < MaxEdits
  /\ \E i \in 1..Len(stReferences) :
       \E title \in StoreTitles \ {stReferences[i].title} :
         updateReference(stReferences[i].id, title)
  /\ stEdits' = stEdits + 1
  /\ UNCHANGED <<stProgress, stIsValidating, vaVars, VaOthers>>

\* the user clicks "Validate All": the run starts with the references of the store
\* as they are now and goes up to its first await
HandleValidateAll ==
  /\ vaPc = "idle"
  /\ ~(Len(stReferences) = 0 \/ stIsValidating)
  /\ stIsValidating' = TRUE
  /\ vaReferences' = stReferences
  /\ vaI' = 1
  /\ vaResults' = <<>>
  /\ vaOnResult' = <<>>
  /\ vaProgressLog' = <<LoopProgress(stReferences, 1)>>
  /\ stProgress' = LoopProgress(stReferences, 1)
  /\ vaPc' = "awaiting"
  /\ UNCHANGED <<stReferences, stResults, stEdits, VaOthers>>

\* the loop body after the await, then the next iteration up to its await, or the
\* final onProgress and the return
CollectResult(validationResult) ==
  /\ vaResults' = Append(vaResults, validationResult)
  /\ vaOnResult' = Append(vaOnResult, validationResult)
  /\ setValidationResult(validationResult)
  /\ IF vaI < Len(vaReferences)
     THEN /\ vaI' = vaI + 1
          /\ vaProgressLog' = Append(vaProgressLog, LoopProgress(vaReferences, vaI + 1))
          /\ stProgress' = LoopProgress(vaReferences, vaI + 1)
          /\ vaPc' = "awaiting"
     ELSE /\ vaI' = vaI + 1
          /\ vaProgressLog' = Append(vaProgressLog, FinalProgress(vaReferences))
          /\ stProgress' = FinalProgress(vaReferences)
          /\ vaPc' = "returned"
  /\ UNCHANGED <<stReferences, stIsValidating, stEdits, vaReferences, VaOthers>>

ValidateReferenceReturns ==
  /\ vaPc = "awaiting"
  /\ \E status \in StoreStatuses :
       CollectResult(ValidationResultOf(vaReferences[vaI], status, <<>>))

ValidateReferenceThrows ==
  /\ vaPc = "awaiting"
  /\ CollectResult(ErrorResult(vaReferences[vaI]))

\* handleValidateAll resumes after validateAllReferences has returned
ValidateAllDone ==
  /\ vaPc = "returned"
  /\ stIsValidating' = FALSE
  /\ stProgress' = Null
  /\ vaPc' = "idle"
  /\ UNCHANGED <<stReferences, stResults, stEdits, vaReferences, vaI, vaResults,
                 vaProgressLog, vaOnResult, VaOthers>>

VaNext ==
  \/ EditReference \/ HandleValidateAll
  \/ ValidateReferenceReturns \/ ValidateReferenceThrows \/ ValidateAllDone

SpecValidateAll == VaInit /\ [][VaNext]_vars

(***************************************************************************)
(* Proxy server: the rate limiting middleware                              *)
(***************************************************************************)
RATE_LIMIT_WINDOW_MS == 60 * 1000
RATE_LIMIT_MAX_REQUESTS == 100

MaxTicks == 2
ClientIps == {"10.0.0.1", "10.0.0.2"}
\* by how much the clock advances between two requests
ClockSteps == {1, RATE_LIMIT_WINDOW_MS}

Put(map, key, value) ==
  [k \in DOMAIN map \cup {key} |-> IF k = key THEN value ELSE map[k]]

\* a middleware that lets one request more through
LimitAfter(clientData) == clientData.count > RATE_LIMIT_MAX_REQUESTS

\* the middleware's second branch
LimitReached(clientData) == clientData.count >= RATE_LIMIT_MAX_REQUESTS

\* the middleware's first branch: no window, or the window is over
OpensWindow(clientIp, now) ==
  clientIp \notin DOMAIN requestCounts \/ now > requestCounts[clientIp].resetTime

RlInit ==
  /\ RunIdle
  /\ SimIdle
  /\ AnaIdle
  /\ ParseIdle
  /\ ExIdle
  /\ StoreIdle
  /\ ArxivIdle
  /\ BibIdle
  /\ RateLimiterIdle

RlOthers == <<runVars, simVars, anaVars, parseVars, exVars, stVars, vaVars, arxivVars, bibVars>>

\* time passes
RlTick ==
  /\ rlTicks < MaxTicks
  /\ \E step \in ClockSteps : rlNow' = rlNow + step
  /\ rlTicks' = rlTicks + 1
  /\ UNCHANGED <<requestCounts, rlResponse, rlWindows, RlOthers>>

\* the middleware handles a request of a client
RlRequest ==
  /\ \E clientIp \in ClientIps :
       IF OpensWindow(clientIp, rlNow)
       THEN /\ requestCounts' = Put(requestCounts, clientIp,
                                    [count |-> 1, resetTime |-> rlNow + RATE_LIMIT_WINDOW_MS])
            /\ rlResponse' = [clientIp |-> clientIp, status |-> "next"]
            /\ rlWindows' = Put(rlWindows, clientIp, [opened |-> rlNow, passed |-> 1])
       ELSE IF LimitReached(requestCounts[clientIp])
       THEN /\ rlResponse' = [clientIp |-> clientIp, status |-> "429"]
            /\ UNCHANGED <<requestCounts, rlWindows>>
       ELSE /\ requestCounts' = [requestCounts EXCEPT ![clientIp].count = @ + 1]
            /\ rlResponse' = [clientIp |-> clientIp, status |-> "next"]
            /\ rlWindows' = [rlWindows EXCEPT ![clientIp].passed = @ + 1]
  /\ UNCHANGED <<rlNow, rlTicks, RlOthers>>

RlNext == RlTick \/ RlRequest

SpecRateLimit == RlInit /\ [][RlNext]_vars

(***************************************************************************)
(* doiParser: extractArxivId                                               *)
(***************************************************************************)
MaxCalls == 3

\* the match of /arxiv[:\s]*(\d{4}\.\d{4,5}(?:v\d+)?)/i that starts at p: the
\* captured group and the 0-based index of the character after the match, or null
RECURSIVE ColonWhiteEnd(_, _)
ColonWhiteEnd(t, p) ==
  IF p <= Len(t) /\ (t[p] = ":" \/ IsWhite(t[p])) THEN ColonWhiteEnd(t, p + 1) ELSE p

AllDigits(t, from, to) == to <= Len(t) /\ \A i \in from..to : IsDigit(t[i])

ArxivMatchAt(t, p) ==
  LET Group(b) ==
        IF AllDigits(t, b, b + 3) /\ b + 4 <= Len(t) /\ t[b + 4] = "." /\ AllDigits(t, b + 5, b + 8)
        THEN LET c == IF AllDigits(t, b + 9, b + 9) THEN b + 10 ELSE b + 9
                 e == IF c + 1 <= Len(t) /\ ToLowerChar(t[c]) = "v" /\ IsDigit(t[c + 1])
                      THEN DigitsEnd(t, c + 1) ELSE c
             IN  [group |-> SubSeq(t, b, e - 1), lastIndex |-> e - 1]
        ELSE Null
  IN  IF p + 4 <= Len(t) /\ ToLowerCase(SubSeq(t, p, p + 4)) = S_arxiv
      THEN Group(ColonWhiteEnd(t, p + 5))
      ELSE Null

\* ARXIV_PATTERN.exec(text) when the pattern's lastIndex is lastIndex: the search
\* starts at lastIndex; a failure sets lastIndex to 0
ArxivExec(text, lastIndex) ==
  LET hit == First({p \in (lastIndex + 1)..Len(text) : ArxivMatchAt(text, p) # Null}, 0)
  IN  IF hit = 0 THEN [group |-> Null, lastIndex |-> 0] ELSE ArxivMatchAt(text, hit)

S_arxivText1 == <<"a", "r", "X", "i", "v", ":", "2", "1", "0", "1", ".", "0", "0", "0", "0", "1">>
S_arxivText2 == <<"s", "e", "e", " ", "a", "r", "X", "i", "v", " ", "1", "7", "0", "6", ".", "0", "3", "7", "6", "2", "v", "2", ".", " ", "A", "l", "s", "o", " ", "a", "r", "X", "i", "v", ":", "2", "1", "0", "1", ".", "0", "0", "0", "0", "1">>
S_arxivText3 == <<"S", "m", "i", "t", "h", " ", "J", ".", " ", "A", " ", "T", "i", "t", "l", "e", ".", " ", "2", "0", "2", "0", ".">>
S_arxivText4 == <<"x", " ", "a", "r", "x", "i", "v", ":", " ", "2", "0", "0", "5", ".", "1", "4", "1", "6", "5">>
S_arxivText5 == <<"p", "r", "e", "p", "r", "i", "n", "t", " ", "A", "R", "X", "I", "V", ":", "1", "8", "1", "0", ".", "0", "4", "8", "0", "5", "V", "1", " ", "a", "r", "x", "i", "v", ":", "1", "2", "3", "4", "5", ".", "6", "7", "8", "9">>
S_arxivText6 == <<"a", "r", "X", "i", "v">>
S_arxivText7 == <<>>
S_arxivText8 == <<"A", " ", "l", "o", "n", "g", " ", "n", "o", "t", "e", " ", "w", "i", "t", "h", "o", "u", "t", " ", "a", "n", "y", " ", "i", "d", "e", "n", "t", "i", "f", "i", "e", "r", " ", "a", "r", "X", "i", "v", ":", "1", "4", "0", "9", ".", "0", "4", "7", "3">>
ArxivTexts ==
  {S_arxivText1, S_arxivText2, S_arxivText3, S_arxivText4, S_arxivText5, S_arxivText6,
   S_arxivText7, S_arxivText8}

ArxivInit ==
  /\ RunIdle
  /\ SimIdle
  /\ AnaIdle
  /\ ParseIdle
  /\ ExIdle
  /\ StoreIdle
  /\ RateLimiterIdle
  /\ ArxivIdle
  /\ BibIdle

\* one call of extractArxivId; the result is <<id>>, and <<>> when it is null
extractArxivId ==
  /\ Len(arxivCalls) < MaxCalls
  /\ \E text \in ArxivTexts :
       LET Return(match) ==
             /\ arxivResult' = IF match.group # Null THEN <<match.group>> ELSE <<>>
             /\ arxivLastIndex' = match.lastIndex
       IN  /\ Return(ArxivExec(text, arxivLastIndex))
           /\ arxivCalls' = Append(arxivCalls, text)
  /\ UNCHANGED <<runVars, simVars, anaVars, parseVars, exVars, stVars, vaVars, rlVars,
                 bibVars>>

SpecArxivId == ArxivInit /\ [][extractArxivId]_vars

(***************************************************************************)
(* detectBibliography (doiParser.ts): where the bibliography section of a  *)
(* document starts and ends.  The regular expressions of the function are  *)
(* records matched by one matcher: a prefix, literal words separated by    *)
(* \s+, and a suffix.  Texts hold letters, digits, spaces, "\n" and        *)
(* punctuation; indexes of the code count from 0, positions of the model   *)
(* from 1.                                                                 *)
(***************************************************************************)

\* prefixes: "newline" is \n\s*, "lineStart" is ^ under the flag m, "boundary" is \b,
\* "roman" is \b[IVX]+\.\s*, "digits" is \b\d+\.?\s*
\* suffixes: "newline" is \s*\n, "lineEnd" is \s*$ under the flag m, "boundary" is \b,
\* "colon" is \s*:, "newlineOrEnd" is \s*(?:\n|$), "punctNewlineOrEnd" is
\* [\.:]?\s*(?:\n|$), "space" is \s+, "spaceUpper" is \s+[A-Z], "nonSpaceAhead" is
\* (?=\S), "spaceUpperLower" is \s+[A-Z][a-z], "optSpaceUpper" is \s*[A-Z], "none" is
\* the empty suffix
Pattern(pre, words, post, ignoreCase) ==
  [pre |-> pre, words |-> words, post |-> post, ignoreCase |-> ignoreCase]

WordReferences == <<"r", "e", "f", "e", "r", "e", "n", "c", "e", "s">>
WordReference == <<"r", "e", "f", "e", "r", "e", "n", "c", "e">>
WordBibliography == <<"b", "i", "b", "l", "i", "o", "g", "r", "a", "p", "h", "y">>
WordWorks == <<"w", "o", "r", "k", "s">>
WordCited == <<"c", "i", "t", "e", "d">>
WordLiterature == <<"l", "i", "t", "e", "r", "a", "t", "u", "r", "e">>
UpperReferences == <<"R", "E", "F", "E", "R", "E", "N", "C", "E", "S">>
UpperReference == <<"R", "E", "F", "E", "R", "E", "N", "C", "E">>
UpperBibliography == <<"B", "I", "B", "L", "I", "O", "G", "R", "A", "P", "H", "Y">>
WordAppendix == <<"a", "p", "p", "e", "n", "d", "i", "x">>
WordAcknowledgment == <<"a", "c", "k", "n", "o", "w", "l", "e", "d", "g", "m", "e", "n", "t">>
WordAcknowledgement == <<"a", "c", "k", "n", "o", "w", "l", "e", "d", "g", "e", "m", "e", "n", "t">>
WordSupplementary == <<"s", "u", "p", "p", "l", "e", "m", "e", "n", "t", "a", "r", "y">>
WordAuthor == <<"a", "u", "t", "h", "o", "r">>
WordContributions == <<"c", "o", "n", "t", "r", "i", "b", "u", "t", "i", "o", "n", "s">>
WordCompeting == <<"c", "o", "m", "p", "e", "t", "i", "n", "g">>
WordInterests == <<"i", "n", "t", "e", "r", "e", "s", "t", "s">>
WordData == <<"d", "a", "t", "a">>
WordAvailability == <<"a", "v", "a", "i", "l", "a", "b", "i", "l", "i", "t", "y">>
WordCode == <<"c", "o", "d", "e">>
LabelBracketOne == <<"[", "1", "]">>
LabelOneDot == <<"1", ".">>
LabelParenOne == <<"(", "1", ")">>
LabelOne == <<"1">>

BIBLIOGRAPHY_HEADERS ==
  << Pattern("newline", <<WordReferences>>, "newline", TRUE),
     Pattern("newline", <<WordReference>>, "newline", TRUE),
     Pattern("newline", <<WordBibliography>>, "newline", TRUE),
     Pattern("newline", <<WordWorks, WordCited>>, "newline", TRUE),
     Pattern("newline", <<WordLiterature, WordCited>>, "newline", TRUE),
     Pattern("newline", <<WordCited, WordLiterature>>, "newline", TRUE),
     Pattern("newline", <<WordReferences>>, "lineEnd", TRUE),
     Pattern("newline", <<WordReference>>, "lineEnd", TRUE),
     Pattern("lineStart", <<WordReferences>>, "newline", TRUE),
     Pattern("lineStart", <<WordReference>>, "newline", TRUE),
     Pattern("boundary", <<WordReferences>>, "newline", TRUE),
     Pattern("boundary", <<WordReference>>, "newline", TRUE),
     Pattern("boundary", <<WordBibliography>>, "newline", TRUE),
     Pattern("roman", <<WordReferences>>, "boundary", TRUE),
     Pattern("roman", <<WordReference>>, "boundary", TRUE),
     Pattern("digits", <<WordReferences>>, "boundary", TRUE),
     Pattern("digits", <<WordReference>>, "boundary", TRUE),
     Pattern("boundary", <<UpperReferences>>, "boundary", FALSE),
     Pattern("boundary", <<UpperReference>>, "boundary", FALSE),
     Pattern("boundary", <<UpperBibliography>>, "boundary", FALSE),
     Pattern("boundary", <<WordReferences>>, "colon", TRUE),
     Pattern("boundary", <<WordReference>>, "colon", TRUE),
     Pattern("boundary", <<WordReferences>>, "newlineOrEnd", TRUE),
     Pattern("boundary", <<WordReference>>, "newlineOrEnd", TRUE),
     Pattern("boundary", <<WordReferences>>, "punctNewlineOrEnd", TRUE),
     Pattern("boundary", <<WordReference>>, "punctNewlineOrEnd", TRUE) >>

SECTION_END_MARKERS ==
  << Pattern("newline", <<WordAppendix>>, "none", TRUE),
     Pattern("newline", <<WordAcknowledgment>>, "none", TRUE),
     Pattern("newline", <<WordAcknowledgement>>, "none", TRUE),
     Pattern("newline", <<WordSupplementary>>, "none", TRUE),
     Pattern("newline", <<WordAuthor, WordContributions>>, "none", TRUE),
     Pattern("newline", <<WordCompeting, WordInterests>>, "none", TRUE),
     Pattern("newline", <<WordData, WordAvailability>>, "none", TRUE),
     Pattern("newline", <<WordCode, WordAvailability>>, "none", TRUE) >>

numberedPatterns ==
  << Pattern("newline", <<LabelBracketOne>>, "space", FALSE),
     Pattern("newline", <<LabelOneDot>>, "spaceUpper", FALSE),
     Pattern("newline", <<LabelParenOne>>, "space", FALSE),
     Pattern("newline", <<LabelOne>>, "nonSpaceAhead", FALSE),
     Pattern("newline", <<LabelOne>>, "spaceUpper", FALSE),
     Pattern("newline", <<LabelOne>>, "spaceUpperLower", FALSE),
     Pattern("newline", <<LabelBracketOne>>, "none", FALSE),
     Pattern("newline", <<LabelOneDot>>, "optSpaceUpper", FALSE) >>

\* \b at position p of t
WordBoundary(t, p) ==
  (p > 1 /\ IsWordChar(t[p - 1])) # (p <= Len(t) /\ IsWordChar(t[p]))

\* the literal word at position p of t
LiteralAt(t, p, word, ignoreCase) ==
  /\ p + Len(word) - 1 <= Len(t)
  /\ IF ignoreCase THEN ToLowerCase(SubSeq(t, p, p + Len(word) - 1)) = ToLowerCase(word)
     ELSE SubSeq(t, p, p + Len(word) - 1) = word

\* where the greedy run [IVX]+ (flag i) that starts at p ends
RomanEnd(t, p) ==
  First({q \in p..Len(t) : ToLowerChar(t[q]) \notin {"i", "v", "x"}}, Len(t) + 1)

\* where a match of the prefix that starts at p hands over to the words, 0 when the
\* prefix does not match at p
PrefixEnd(pre, t, p) ==
  CASE pre = "newline" -> IF t[p] = "\n" THEN WhiteEnd(t, p + 1) ELSE 0
    [] pre = "lineStart" -> IF p = 1 \/ t[p - 1] = "\n" THEN p ELSE 0
    [] pre = "boundary" -> IF WordBoundary(t, p) THEN p ELSE 0
    [] pre = "roman" ->
         LET AfterNumeral(r) ==
               IF WordBoundary(t, p) /\ r > p /\ r <= Len(t) /\ t[r] = "."
               THEN WhiteEnd(t, r + 1) ELSE 0
         IN  AfterNumeral(RomanEnd(t, p))
    [] pre = "digits" ->
         LET AfterNumber(d) ==
               IF WordBoundary(t, p) /\ d > p
               THEN WhiteEnd(t, IF d <= Len(t) /\ t[d] = "." THEN d + 1 ELSE d) ELSE 0
         IN  AfterNumber(DigitsEnd(t, p))

\* where the words, separated by \s+, end when the first starts at p; 0 when they do
\* not match
RECURSIVE WordsEnd(_, _, _, _)
WordsEnd(t, p, words, ignoreCase) ==
  IF ~LiteralAt(t, p, Head(words), ignoreCase) THEN 0
  ELSE LET Next1(e, w) ==
             IF Len(words) = 1 THEN e
             ELSE IF w = e THEN 0 ELSE WordsEnd(t, w, Tail(words), ignoreCase)
       IN  Next1(p + Len(Head(words)), WhiteEnd(t, p + Len(Head(words))))

\* the last "\n" of t[from..to-1], 0 when there is none
LastNewline(t, from, to) ==
  LET hits == {k \in from..(to - 1) : t[k] = "\n"}
  IN  IF hits = {} THEN 0 ELSE CHOOSE k \in hits : \A j \in hits : j <= k

\* where the suffix ends when it starts at e (the position after the match), 0 when
\* it does not match: \s* takes the whole run of white space and gives back as little
\* as the rest of the suffix needs
SuffixEnd(post, t, e) ==
  LET Ends(from, r, nl) ==
        CASE post = "newline" -> IF nl = 0 THEN 0 ELSE nl + 1
          [] post = "lineEnd" -> IF r = Len(t) + 1 THEN r ELSE nl
          [] post = "boundary" -> IF WordBoundary(t, e) THEN e ELSE 0
          [] post = "colon" -> IF r <= Len(t) /\ t[r] = ":" THEN r + 1 ELSE 0
          [] post \in {"newlineOrEnd", "punctNewlineOrEnd"} ->
               IF r = Len(t) + 1 THEN r ELSE IF nl = 0 THEN 0 ELSE nl + 1
          [] post = "space" -> IF r > e THEN r ELSE 0
          [] post = "spaceUpper" ->
               IF r > e /\ r <= Len(t) /\ IsUpper(t[r]) THEN r + 1 ELSE 0
          [] post = "nonSpaceAhead" -> IF e <= Len(t) /\ ~IsWhite(t[e]) THEN e ELSE 0
          [] post = "spaceUpperLower" ->
               IF r > e /\ r < Len(t) /\ IsUpper(t[r]) /\ t[r + 1] \in LowerLetters
               THEN r + 2 ELSE 0
          [] post = "optSpaceUpper" -> IF r <= Len(t) /\ IsUpper(t[r]) THEN r + 1 ELSE 0
          [] post = "none" -> e
      Punct == IF post = "punctNewlineOrEnd" /\ e <= Len(t) /\ t[e] \in {".", ":"}
               THEN e + 1 ELSE e
  IN  Ends(Punct, WhiteEnd(t, Punct), LastNewline(t, Punct, WhiteEnd(t, Punct)))

\* the position after the match of pattern that starts at p, 0 when there is none
MatchEndAt(pattern, t, p) ==
  LET AfterWords(e) == IF e = 0 THEN 0 ELSE SuffixEnd(pattern.post, t, e)
      AfterPrefix(w) ==
        IF w = 0 THEN 0 ELSE AfterWords(WordsEnd(t, w, pattern.words, pattern.ignoreCase))
  IN  AfterPrefix(PrefixEnd(pattern.pre, t, p))

\* RegExp.prototype.exec from position lastIndex on: the leftmost match, as the index
\* of the code and the index after the match; Null when there is none
Exec(pattern, text, lastIndex) ==
  LET Found(hit) ==
        IF hit = 0 THEN Null
        ELSE [index |-> hit - 1, end |-> MatchEndAt(pattern, text, hit) - 1]
  IN  Found(First({p \in lastIndex..Len(text) : MatchEndAt(pattern, text, p) > 0}, 0))

\* the exec loop of findLastMatch: each match is searched after the one before
RECURSIVE LastMatchFrom(_, _, _, _)
LastMatchFrom(text, pattern, lastIndex, lastMatch) ==
  LET Loop(match) ==
        IF match = Null THEN lastMatch
        ELSE LastMatchFrom(text, pattern, match.end + 1, match)
  IN  Loop(Exec(pattern, text, lastIndex))

findLastMatch(text, pattern) == LastMatchFrom(text, pattern, 1, Null)

\* String.prototype.substring with indexes of the code
Substring(text, start, end) == SubSeq(text, start + 1, end)

\* Math.floor(length * 0.6) and Math.floor(length * 0.7) in double arithmetic, for
\* lengths below 330: the product 0.7 * length falls just below the whole number at 90,
\* 170 and 180
FloorSixTenths(length) == (length * 6) \div 10
FloorSevenTenths(length) ==
  ((length * 7) \div 10) - (IF length \in {90, 170, 180} THEN 1 ELSE 0)

\* the loop over BIBLIOGRAPHY_HEADERS from the k-th pattern on
RECURSIVE HeaderScan(_, _, _)
HeaderScan(fullText, k, startIndex) ==
  IF k > Len(BIBLIOGRAPHY_HEADERS) THEN startIndex
  ELSE LET Step(lastMatch) ==
             IF lastMatch # Null /\ lastMatch.index > startIndex THEN lastMatch.end
             ELSE startIndex
       IN  HeaderScan(fullText, k + 1, Step(findLastMatch(fullText, BIBLIOGRAPHY_HEADERS[k])))

\* the loop over numberedPatterns on the last 40% of the text: the first pattern that
\* matches gives the start, -1 when none matches
NumberedStart(fullText) ==
  LET InPortion(searchStartIndex, lastPortion) ==
        LET hits == {k \in DOMAIN numberedPatterns :
                       findLastMatch(lastPortion, numberedPatterns[k]) # Null}
        IN  IF hits = {} THEN -1
            ELSE searchStartIndex
                   + findLastMatch(lastPortion, numberedPatterns[First(hits, 0)]).index
  IN  InPortion(FloorSixTenths(Len(fullText)),
                Substring(fullText, FloorSixTenths(Len(fullText)), Len(fullText)))

\* referenceIndicators.some(pattern => pattern.test(line))
ReferenceLike(line) ==
  LET n == Len(line)
      Year == \E i \in 1..(n - 3) : \A j \in i..(i + 3) : IsDigit(line[j])
      AuthorName ==
        \E i \in 1..n :
          /\ IsUpper(line[i])
          /\ \E e \in (i + 2)..n :
               /\ \A j \in (i + 1)..(e - 1) : line[j] \in LowerLetters
               /\ IsWhite(line[e])
               /\ WhiteEnd(line, e) <= n /\ IsUpper(line[WhiteEnd(line, e)])
      Doi == \E i \in 1..n : LiteralAt(line, i, <<"d", "o", "i", ":">>, TRUE)
      Http == \E i \in 1..n : LiteralAt(line, i, <<"h", "t", "t", "p">>, FALSE)
      Brackets == \E i \in 1..n : line[i] = "[" /\ \E j \in (i + 1)..n : line[j] = "]"
      NumberedList ==
        \E i \in 1..(n - 1) :
          /\ IsDigit(line[i]) /\ line[i + 1] = "."
          /\ WhiteEnd(line, i + 2) > i + 2
          /\ WhiteEnd(line, i + 2) <= n /\ IsUpper(line[WhiteEnd(line, i + 2)])
  IN  Year \/ AuthorName \/ Doi \/ Http \/ Brackets \/ NumberedList

\* the last resort: the start of the last 30% of the text when enough of its
\* non-blank lines look like references, -1 otherwise
HeuristicStart(fullText) ==
  LET Decide(lines) ==
        LET referenceLikeLines ==
              Cardinality({i \in 1..Min(Len(lines), 20) : ReferenceLike(lines[i])})
        IN  IF 10 * referenceLikeLines > 3 * Len(lines) /\ Len(lines) > 5
            THEN FloorSevenTenths(Len(fullText)) ELSE -1
  IN  Decide(SelectSeq(Split(Substring(fullText, FloorSevenTenths(Len(fullText)),
                                       Len(fullText)), <<"\n">>),
                       LAMBDA line : \E i \in 1..Len(line) : ~IsWhite(line[i])))

\* the loop over SECTION_END_MARKERS from the k-th marker on
RECURSIVE EndScan(_, _, _, _)
EndScan(fullText, startIndex, k, endIndex) ==
  IF k > Len(SECTION_END_MARKERS) THEN endIndex
  ELSE LET Step(match) ==
             IF match # Null /\ match.index < endIndex - startIndex
             THEN startIndex + match.index ELSE endIndex
       IN  EndScan(fullText, startIndex, k + 1,
                   Step(Exec(SECTION_END_MARKERS[k],
                             Substring(fullText, startIndex, Len(fullText)), 1)))

\* String.prototype.trim
RECURSIVE TrimWhite(_)
TrimWhite(s) ==
  IF s # <<>> /\ IsWhite(s[1]) THEN TrimWhite(Tail(s))
  ELSE IF s # <<>> /\ IsWhite(s[Len(s)]) THEN TrimWhite(SubSeq(s, 1, Len(s) - 1))
  ELSE s

\* findPageRange from the k-th page on
RECURSIVE PageRangeFrom(_, _, _, _, _, _)
PageRangeFrom(pages, k, currentIndex, startIndex, endIndex, range) ==
  IF k > Len(pages) THEN range
  ELSE LET pageEndIndex == currentIndex + Len(pages[k].text) + 2
           startPage == IF currentIndex <= startIndex /\ startIndex < pageEndIndex
                        THEN pages[k].pageNumber ELSE range.startPage
       IN  IF currentIndex <= endIndex /\ endIndex <= pageEndIndex
           THEN [startPage |-> startPage, endPage |-> pages[k].pageNumber]
           ELSE PageRangeFrom(pages, k + 1, pageEndIndex, startIndex, endIndex,
                              [range EXCEPT !.startPage = startPage])

findPageRange(pages, startIndex, endIndex) ==
  PageRangeFrom(pages, 1, 0, startIndex, endIndex,
                [startPage |-> 1, endPage |-> Len(pages)])

\* Array.prototype.join
RECURSIVE JoinWith(_, _)
JoinWith(list, sep) ==
  IF list = <<>> THEN <<>>
  ELSE IF Len(list) = 1 THEN Head(list)
  ELSE Head(list) \o sep \o JoinWith(Tail(list), sep)

\* documents of two pages: a page of prose, and a page with an optional heading, a block
\* of entries and an optional closing section; fullText joins the pages with "\n\n"
HeadPlain ==
  <<"D", "e", "e", "p", " ", "n", "e", "t", "s", " ", "l", "e", "a", "r", "n", " ", "f", "e",
     "a", "t", "u", "r", "e", "s", " ", "f", "r", "o", "m", " ", "d", "a", "t", "a", ".",
     " ", "W", "e", " ", "s", "t", "u", "d", "y", " ", "h", "o", "w", " ", "d", "e", "p",
     "t", "h", " ", "h", "e", "l", "p", "s", " ", "o", "n", " ", "s", "m", "a", "l", "l",
     " ", "s", "e", "t", "s", ".">>
HeadCiting ==
  <<"D", "e", "e", "p", " ", "n", "e", "t", "s", " ", "l", "e", "a", "r", "n", " ", "f", "e",
     "a", "t", "u", "r", "e", "s", ",", " ", "a", "s", " ", "t", "h", "e", " ", "r", "e",
     "f", "e", "r", "e", "n", "c", "e", "s", " ", "i", "n", " ", "t", "h", "i", "s", " ",
     "n", "o", "t", "e", " ", "s", "h", "o", "w", ",", " ", "o", "n", " ", "s", "m", "a",
     "l", "l", " ", "d", "a", "t", "a", ".">>
HeadShort ==
  <<"W", "e", " ", "s", "t", "u", "d", "y", " ", "d", "e", "p", "t", "h", ".">>
NoHeading == <<>>
HeadingReferences == <<<<"R", "e", "f", "e", "r", "e", "n", "c", "e", "s">>>>
HeadingUpper == <<<<"R", "E", "F", "E", "R", "E", "N", "C", "E", "S">>>>
HeadingBibliography == <<<<"B", "i", "b", "l", "i", "o", "g", "r", "a", "p", "h", "y">>>>
HeadingNumbered == <<<<"7", ".", " ", "R", "e", "f", "e", "r", "e", "n", "c", "e", "s">>>>
HeadingRoman == <<<<"V", "I", "I", ".", " ", "R", "E", "F", "E", "R", "E", "N", "C", "E",
     "S">>>>
HeadingColon == <<<<"R", "e", "f", "e", "r", "e", "n", "c", "e", "s", ":">>>>
HeadingSpaced == <<<<"R", "e", "f", "e", "r", "e", "n", "c", "e", "s">>, <<>>>>
EntriesBracketed == <<<<"[", "1", "]", " ", "L", "e", "e", " ", "K", ".", " ", "N", "e", "t",
     "s", ".", " ", "2", "0", "1", "9", ".">>, <<"[", "2", "]", " ", "R", "o", "y", " ", "P",
     ".", " ", "D", "e", "p", "t", "h", ".", " ", "2", "0", "2", "0", ".">>>>
EntriesDotted == <<<<"1", ".", " ", "L", "e", "e", " ", "K", ".", " ", "N", "e", "t", "s",
     ".", " ", "2", "0", "1", "9", ".">>, <<"2", ".", " ", "R", "o", "y", " ", "P", ".", " ",
     "D", "e", "p", "t", "h", ".", " ", "2", "0", "2", "0", ".">>>>
EntriesGlued == <<<<"1", "L", "e", "e", " ", "K", ".", " ", "N", "e", "t", "s", ".", " ",
     "2", "0", "1", "9", ".">>, <<"2", "R", "o", "y", " ", "P", ".", " ", "D", "e", "p", "t",
     "h", ".", " ", "2", "0", "2", "0", ".">>>>
EntriesManual == <<<<"1", " ", "R", "e", "f", "e", "r", "e", "n", "c", "e", " ", "g", "u",
     "i", "d", "e", " ", "t", "o", " ", "n", "e", "t", "s", ".", " ", "2", "0", "1", "9",
     ".">>, <<"2", " ", "R", "o", "y", " ", "P", ".", " ", "D", "e", "p", "t", "h", ".", " ",
     "2", "0", "2", "0", ".">>>>
EntriesPlain == <<<<"L", "e", "e", " ", "K">>, <<"R", "o", "y", " ", "P">>, <<"X", "u", " ",
     "2", "0", "1", "9">>, <<"N", "g", " ", "2", "0", "2", "0">>, <<"d", "o", "i", ":", "1",
     "0">>, <<"L", "i", " ", "T">>>>
EntriesProse == <<<<"n", "o", " ", "l", "i", "s", "t", " ", "f", "o", "l", "l", "o", "w",
     "s", " ", "h", "e", "r", "e">>>>
NoTrailer == <<>>
TrailerAppendix == <<<<"A", "p", "p", "e", "n", "d", "i", "x", " ", "A">>, <<"M", "o", "r",
     "e", " ", "p", "l", "o", "t", "s", ".">>>>
TrailerThanks == <<<<"A", "c", "k", "n", "o", "w", "l", "e", "d", "g", "m", "e", "n", "t",
     "s">>, <<"W", "e", " ", "t", "h", "a", "n", "k", " ", "L", "e", "e", ".">>>>
TrailerData == <<<<"S", "e", "e", " ", "t", "o", "o">>, <<" ", " ", "D", "a", "t", "a", " ",
     "a", "v", "a", "i", "l", "a", "b", "i", "l", "i", "t", "y">>>>
Heads == {HeadPlain, HeadCiting, HeadShort}
Headings == {NoHeading, HeadingReferences, HeadingUpper, HeadingBibliography,
     HeadingNumbered, HeadingRoman, HeadingColon, HeadingSpaced}
EntryBlocks == {EntriesBracketed, EntriesDotted, EntriesGlued, EntriesManual, EntriesPlain,
     EntriesProse}
Trailers == {NoTrailer, TrailerAppendix, TrailerThanks, TrailerData}

PDFDocument(head, lines) ==
  [fullText |-> head \o <<"\n", "\n">> \o JoinWith(lines, <<"\n">>),
   pages |-> <<[pageNumber |-> 1, text |-> head],
               [pageNumber |-> 2, text |-> JoinWith(lines, <<"\n">>)]>>]

BibDocuments ==
  {PDFDocument(head, heading \o entries \o trailer) :
     head \in Heads, heading \in Headings, entries \in EntryBlocks, trailer \in Trailers}

BibInit ==
  /\ RunIdle
  /\ SimIdle
  /\ AnaIdle
  /\ ParseIdle
  /\ ExIdle
  /\ StoreIdle
  /\ RateLimiterIdle
  /\ ArxivIdle
  /\ bibDoc \in BibDocuments
  /\ bibPc = "headers"
  /\ bibStartIndex = -1
  /\ bibEndIndex = -1
  /\ bibMatchedPattern = ""
  /\ bibResult = Null

BibOthers == <<runVars, simVars, anaVars, parseVars, exVars, stVars, vaVars, rlVars, arxivVars>>

\* the loop over the header patterns; the numbered patterns follow when none is taken
BibHeaders ==
  /\ bibPc = "headers"
  /\ LET Found(startIndex) ==
           /\ bibStartIndex' = startIndex
           /\ bibMatchedPattern' = IF startIndex = -1 THEN bibMatchedPattern ELSE "header"
           /\ bibPc' = IF startIndex = -1 THEN "numbered" ELSE "end"
     IN  Found(HeaderScan(bibDoc.fullText, 1, -1))
  /\ UNCHANGED <<bibDoc, bibEndIndex, bibResult, BibOthers>>

\* no header: numbered references in the last 40% of the text
BibNumberedFallback ==
  /\ bibPc = "numbered"
  /\ LET Found(startIndex) ==
           /\ bibStartIndex' = startIndex
           /\ bibMatchedPattern' =
                IF startIndex = -1 THEN bibMatchedPattern ELSE "numbered fallback"
           /\ bibPc' = IF startIndex = -1 THEN "heuristic" ELSE "end"
     IN  Found(NumberedStart(bibDoc.fullText))
  /\ UNCHANGED <<bibDoc, bibEndIndex, bibResult, BibOthers>>

\* still nothing: reference-like lines in the last 30% of the text
BibHeuristicFallback ==
  /\ bibPc = "heuristic"
  /\ LET Found(startIndex) ==
           /\ bibStartIndex' = startIndex
           /\ bibMatchedPattern' =
                IF startIndex = -1 THEN bibMatchedPattern ELSE "heuristic fallback"
           /\ bibPc' = IF startIndex = -1 THEN "none" ELSE "end"
     IN  Found(HeuristicStart(bibDoc.fullText))
  /\ UNCHANGED <<bibDoc, bibEndIndex, bibResult, BibOthers>>

\* no start was found: detectBibliography returns null
BibNotDetected ==
  /\ bibPc = "none"
  /\ bibPc' = "returned"
  /\ UNCHANGED <<bibDoc, bibStartIndex, bibEndIndex, bibMatchedPattern, bibResult, BibOthers>>

\* a start was found: the end, the text and the pages of the section
BibSection ==
  /\ bibPc = "end"
  /\ LET Return(endIndex) ==
           /\ bibEndIndex' = endIndex
           /\ bibResult' =
                [text |-> TrimWhite(Substring(bibDoc.fullText, bibStartIndex, endIndex)),
                 startPage |-> findPageRange(bibDoc.pages, bibStartIndex, endIndex).startPage,
                 endPage |-> findPageRange(bibDoc.pages, bibStartIndex, endIndex).endPage,
                 startIndex |-> bibStartIndex]
     IN  Return(EndScan(bibDoc.fullText, bibStartIndex, 1, Len(bibDoc.fullText)))
  /\ bibPc' = "returned"
  /\ UNCHANGED <<bibDoc, bibStartIndex, bibMatchedPattern, BibOthers>>

BibNext ==
  \/ BibHeaders
  \/ BibNumberedFallback
  \/ BibHeuristicFallback
  \/ BibNotDetected
  \/ BibSection

SpecDetect == BibInit /\ [][BibNext]_vars

(***************************************************************************)
(* Properties of the validation run                                        *)
(***************************************************************************)
Staged == mode = "agent-based"
Simple == mode = "api-only"
Returned == pc = "done"

GoodMatch(srcs) == \E i \in 1..Len(srcs) : srcs[i].found /\ RGt(srcs[i].matchScore, <<7, 10>>)
Names(srcs) == [i \in 1..Len(srcs) |-> srcs[i].name]
IsPrefix(p, q) == Len(p) <= Len(q) /\ p = SubSeq(q, 1, Len(p))
SettledSeq == [i \in 1..Len(SelectSeq(Connectors, LAMBDA c : c \in DOMAIN settled)) |->
                 settled[SelectSeq(Connectors, LAMBDA c : c \in DOMAIN settled)[i]]]

\* every connector source the staged run holds: joined, collected, or just settled
ConnectorSources ==
  SelectSeq(sources \o qeSources \o SettledSeq, LAMBDA src : src.name # "web_search")

\* C1: in a staged run whose API stage returned a source with found = true and
\* matchScore > 0.7, the query-enhancement and the web-search capability are never
\* invoked, no further connector round starts, and the run has returned a result
\* whose sources are exactly the API stage's sources.
C1_EarlyExitAfterAPIs ==
  (Staged /\ GoodMatch(apiSources)) =>
    /\ nCalls.llm = 0
    /\ nCalls.web = 0
    /\ Len(rounds) = 1
    /\ Returned
    /\ result.sources = apiSources
    /\ \A i \in 1..Len(result.sources) : result.sources[i].step = "api"

\* a staged run with two connectors, a weak and a good match, returned verified
C1_Witness ==
  /\ Staged /\ Returned
  /\ Len(apiSources) = 2
  /\ GoodMatch(apiSources)
  /\ \E i \in 1..2 : apiSources[i].found /\ RLt(apiSources[i].matchScore, <<7, 10>>)
  /\ result.status = "verified"

AllSources ==
  sources \o qeSources \o apiSources \o SettledSeq
    \o (IF webSearchResult = Null THEN <<>> ELSE <<webSearchResult>>)

\* C4: every source a connector, a stage or the web search produced satisfies
\* found = false => matchScore = 0 and retrievedData = null.
C4_NotFoundIsEmpty ==
  \A i \in 1..Len(AllSources) :
    ~AllSources[i].found =>
      AllSources[i].matchScore = Zero /\ AllSources[i].retrievedData = Null

AnyFound(srcs) == \E i \in 1..Len(srcs) : srcs[i].found
AnyFoundWithScore(srcs) == \E i \in 1..Len(srcs) : srcs[i].found /\ RGt(srcs[i].matchScore, Zero)

\* C5 as stated: a returned result has a bestMatch iff one of its sources has
\* found = true, whatever that source's matchScore.
C5_BestMatchIffFound ==
  Returned => ((result.bestMatch # Null) <=> AnyFound(result.sources))

\* C5: a returned result has a bestMatch iff one of its sources has found = true and
\* matchScore > 0.
C5_BestMatchIffFoundWithScore ==
  Returned => ((result.bestMatch # Null) <=> AnyFoundWithScore(result.sources))

\* a returned result whose only found source has matchScore 0, and no bestMatch
C5_Witness ==
  /\ Returned
  /\ AnyFound(result.sources)
  /\ ~AnyFoundWithScore(result.sources)
  /\ result.bestMatch = Null

\* C6: every similarity and score lies in [0,1]: tokenSimilarity and titleSimilarity
\* of two strings, the connectors' matchScore, the web-search confidence and the
\* analyzer's confidence computed from them.
C6_ScoresInUnitInterval ==
  /\ InUnit(simToken)
  /\ InUnit(simTitle)
  /\ InUnit(simScores.matchScore)
  /\ InUnit(simScores.arxivScore)
  /\ InUnit(simScores.confidence)
  /\ InUnit(simScores.analysis)

\* some awaited call can still settle, or the run can resume
CanStep ==
  \/ pc = "start"
  \/ pc \in {"api", "enhance_round"} /\ (ConnectorCalls # {} \/ AllSettled)
  \/ pc = "enhance_llm" /\ CapabilityCall("llm") \in inFlight
  \/ pc = "web" /\ CapabilityCall("web") \in inFlight
  \/ pc = "explain" /\ CapabilityCall("explain") \in inFlight
  \/ pc = "simple_call" /\ ConnectorCalls # {}
  \/ pc = "simple_sleep" /\ CapabilityCall("sleep") \in inFlight
  \/ pc = "threw"

\* C7: every unverified result a run produces, the one recorded after a throw
\* included, names the sources tried and the next steps, and a run that has no
\* result yet is neither crashed nor blocked.
C7_UnverifiedIsExplained ==
  /\ (result # Null /\ result.status = "unverified") =>
       /\ result.explanationData.triedSources # <<>>
       /\ result.explanationData.nextSteps # <<>>
  /\ result = Null => CanStep

\* the language model was unavailable, failed, or did not answer a well-formed list
IsFallbackCase(response) ==
  \/ response.kind \in {"throw", "unparseable", "nonarray"}
  \/ response.kind = "array" /\ response.elems = <<>>
  \/ response.kind = "array" /\ \E i \in 1..Len(response.elems) : ~response.elems[i].hasAuthors

\* C8: when the language model is unavailable, fails, or answers anything but a
\* well-formed list of variants, the query-enhancement stage runs exactly one
\* connector round, with the original query, and the run does not throw.
C8_FallbackToOriginalQuery ==
  (Staged /\ IsFallbackCase(responseText)) =>
    /\ pc \notin {"threw", "caught"}
    /\ Len(rounds) = 2
    /\ rounds[2] = [step |-> "query_enhanced", query |-> reference]

ErrorSources(srcs, name) ==
  SelectSeq(srcs, LAMBDA src : src.name = name /\ ~src.found /\ src.errors # <<>>)

\* C9: in a staged run a failing connector or capability call does not make the run
\* throw (a run throws only over an array the language model did answer), and the
\* error is recorded on a source of the returned result: every connector failure on
\* a source of its own, a failed web search on a web-search source with found = false.
C9_StageErrorsAreRecorded ==
  Staged =>
    /\ pc \in {"threw", "caught"} => responseText.kind = "array"
    /\ Returned =>
         /\ Len(SelectSeq(result.sources,
                          LAMBDA src : src.name # "web_search"
                                       /\ src.errors = <<"api_error">>)) = faults
         /\ (webSearchResult # Null /\ webSearchResult.errors # <<>>) =>
              ErrorSources(result.sources, "web_search") # <<>>

\* the queries the query-enhancement loop iterates over
NumQueries == Len(enhanceQueriesWithLLM(reference, responseText))

\* C10: a staged run returns a result with status verified, warning, error or
\* unverified and never ends by throwing; while it runs it is not blocked; the
\* web search is invoked at most once, and at most 1 + (number of queries) connector
\* rounds are started.
C10_StagedRunTerminates ==
  Staged =>
    /\ pc # "threw"
    /\ Returned => result.status \in {"verified", "warning", "error", "unverified"}
    /\ pc \notin {"done", "caught"} => CanStep
    /\ nCalls.web <= 1
    /\ Len(rounds) <= 1 + (IF responseText = NoResponse THEN 0 ELSE NumQueries)

(***************************************************************************)
(* Properties of the analyzer                                              *)
(***************************************************************************)
AnaRan == anaPc \in {"agent", "api-only"}

\* the found source of highest match score, first among equals; Null if there is none
AnaBest == findBestMatch(anaSources)

\* the analyzer compares fields: there is a best source, it carries a record, and the
\* agent-based analyzer's web-search special case does not apply
AnaWebCase ==
  /\ anaPc = "agent"
  /\ AnaBest # Null
  /\ AnaBest.retrievedData # Null
  /\ AnaBest.name = "web_search"
  /\ AnaBest.confidence # NoConf
  /\ RGt(AnaBest.confidence, Zero)
  /\ RLt(AnaBest.confidence, <<7, 10>>)

AnaCompares == AnaRan /\ AnaBest # Null /\ AnaBest.retrievedData # Null /\ ~AnaWebCase

\* the field scores as the analyzer takes them: a missing field counts as a match,
\* except a retrieved record without title under a reference with one
AnaTitleScore ==
  LET best == AnaBest.retrievedData
  IN  IF anaReference.title # <<>> /\ best.title # <<>>
        THEN titleSimilarity(anaReference.title, best.title)
      ELSE IF anaReference.title # <<>> THEN Zero
      ELSE One

AnaAuthorScore ==
  LET best == AnaBest.retrievedData
  IN  IF Len(anaReference.authors) > 0 /\ Len(best.authors) > 0
        THEN compareAuthorLists(anaReference.authors, best.authors)
      ELSE One

\* both years are given and numeric
AnaYearsGiven ==
  /\ anaReference.year # <<>> /\ AnaBest.retrievedData.year # <<>>
  /\ ~isNaN(parseInt(anaReference.year))
  /\ ~isNaN(parseInt(AnaBest.retrievedData.year))

AnaYearDiff == Abs(parseInt(anaReference.year)[1] - parseInt(AnaBest.retrievedData.year)[1])

\* the four rules of the status decision, in order
StatusDecision(titleScore, authorScore, yearMatch, matchScore) ==
  IF RGe(titleScore, <<7, 10>>) /\ RGe(authorScore, <<3, 5>>) /\ yearMatch THEN "verified"
  ELSE IF RGe(titleScore, <<7, 10>>) \/ RGe(authorScore, <<3, 5>>)
    THEN (IF RGe(titleScore, <<1, 2>>) \/ RGe(authorScore, <<1, 2>>)
          THEN "warning" ELSE "error")
  ELSE IF RGt(matchScore, <<1, 2>>) THEN "warning"
  ELSE "error"

\* C11 as stated: when the analyzer compares fields, the status follows the four
\* rules in order, and yearMatch holds exactly when the reference year and the
\* retrieved year differ by at most 1
C11_StatusDecisionYearDiff ==
  AnaCompares =>
    anaResult.status =
      StatusDecision(AnaTitleScore, AnaAuthorScore,
                     AnaYearsGiven /\ AnaYearDiff <= 1, AnaBest.matchScore)

\* C11 amended: when the analyzer compares fields, the status follows the four rules
\* in order, where yearMatch holds when one of the two years is missing or not a
\* number, and otherwise exactly when the two years differ by at most 1
C11_StatusDecision ==
  AnaCompares =>
    anaResult.status =
      StatusDecision(AnaTitleScore, AnaAuthorScore,
                     AnaYearsGiven => AnaYearDiff <= 1, AnaBest.matchScore)

\* the third rule decides: both field scores are low and the best match score is
\* above one half
C11_Witness ==
  /\ AnaCompares
  /\ RLt(AnaTitleScore, <<7, 10>>) /\ RLt(AnaAuthorScore, <<3, 5>>)
  /\ RGt(AnaBest.matchScore, <<1, 2>>)
  /\ AnaYearsGiven /\ AnaYearDiff > 1
  /\ anaResult.status = "warning"

\* C12: in both modes, when no source has found = true with matchScore > 0, the
\* analyzer returns status unverified, an empty issue list and no bestMatch
C12_NothingFoundIsUnverified ==
  (AnaRan /\ ~AnyFoundWithScore(anaSources)) =>
    /\ anaResult.status = "unverified"
    /\ anaResult.issues = <<>>
    /\ anaResult.bestMatch = Null

\* C13: when the best source is the web-search source and its confidence is set but
\* below 0.70, the analyzer returns status warning with exactly one issue, of type
\* not_found and severity warning, whatever the title, author and year differences
C13_LowConfidenceWebMatch ==
  (/\ anaPc = "agent"
   /\ AnaBest # Null
   /\ AnaBest.name = "web_search"
   /\ AnaBest.confidence # NoConf
   /\ RLt(AnaBest.confidence, <<7, 10>>)) =>
    /\ anaResult.status = "warning"
    /\ anaResult.issues = <<Issue("not_found", "warning")>>

\* a web-search match of confidence below 0.70 whose title, authors and year all
\* differ from the reference's has been analyzed
C13_Witness ==
  /\ anaPc = "agent"
  /\ AnaBest # Null
  /\ AnaBest.name = "web_search"
  /\ RLt(AnaBest.confidence, <<7, 10>>)
  /\ anaReference.title # <<>> /\ AnaBest.retrievedData.title # <<>>
  /\ RLt(AnaTitleScore, <<1, 2>>)
  /\ Len(anaReference.authors) > 0 /\ Len(AnaBest.retrievedData.authors) > 0
  /\ RLt(AnaAuthorScore, <<3, 5>>)
  /\ AnaYearsGiven /\ AnaYearDiff > 0
  /\ anaResult.status = "warning"
  /\ Len(anaResult.issues) = 1

\* C14: the titleScore and authorScore the analyzer uses equal
\* titleSimilarity(reference.title, best.title) and the author-list overlap of
\* reference.authors and best.authors for every input, empty titles and author lists
\* included: the confidence is their weighted sum, and status verified is given only
\* when the title similarity is at least 0.70 and the author overlap at least 0.60
C14_ScoresAreSimilarities ==
  AnaCompares =>
    LET titleScore == titleSimilarity(anaReference.title, AnaBest.retrievedData.title)
        authorScore ==
          compareAuthorLists(anaReference.authors, AnaBest.retrievedData.authors)
    IN  /\ anaResult.confidence =
             RAdd(RMul(titleScore, <<1, 2>>),
                  RAdd(RMul(authorScore, <<3, 10>>),
                       IF AnaYearsGiven => AnaYearDiff <= 1 THEN <<1, 5>> ELSE Zero))
        /\ anaResult.status = "verified" =>
             RGe(titleScore, <<7, 10>>) /\ RGe(authorScore, <<3, 5>>)

(***************************************************************************)
(* Order of the accumulated sources                                        *)
(***************************************************************************)
RECURSIVE Repeat(_, _)
Repeat(seq, n) == IF n = 0 THEN <<>> ELSE seq \o Repeat(seq, n - 1)

WebFound == webSearchResult # Null /\ webSearchResult.found

\* the names and steps of the sources of a staged run that started Len(rounds)
\* connector rounds: the enabled connectors in connector order once per round, the
\* first round being the API stage, then the web-search source if it was found
ExpectedNames ==
  Repeat(EnabledSeq, Len(rounds)) \o (IF WebFound THEN <<"web_search">> ELSE <<>>)

ExpectedStep(i) ==
  IF i <= Len(EnabledSeq) THEN "api"
  ELSE IF i <= Len(EnabledSeq) * Len(rounds) THEN "query_enhanced"
  ELSE "web_search"

\* positions of the found sources of maximal match score
BestPositions(srcs) ==
  {i \in 1..Len(srcs) :
     /\ srcs[i].found /\ RGt(srcs[i].matchScore, Zero)
     /\ \A j \in 1..Len(srcs) :
          (srcs[j].found /\ RGt(srcs[j].matchScore, Zero))
            => RLe(srcs[j].matchScore, srcs[i].matchScore)}

FirstBest(srcs) == CHOOSE i \in BestPositions(srcs) : \A j \in BestPositions(srcs) : i <= j

\* C15: the sources of the result a staged run returns are the API-stage sources in
\* connector order tagged api, then the query-enhancement sources round by round in
\* connector order tagged query_enhanced, then the web-search source if any; the
\* best source is a found source of maximal matchScore, the earliest of the list
\* among equals: its record is the bestMatch and its label heads the sources named
\* by a warning or error explanation
C15_SourceOrderAndBest ==
  (Staged /\ Returned) =>
    /\ Names(result.sources) = ExpectedNames
    /\ \A i \in 1..Len(result.sources) : result.sources[i].step = ExpectedStep(i)
    /\ IsPrefix(apiSources, result.sources)
    /\ WebFound => result.sources[Len(result.sources)] = webSearchResult
    /\ IF BestPositions(result.sources) = {} THEN result.bestMatch = Null
       ELSE /\ result.bestMatch = result.sources[FirstBest(result.sources)].retrievedData
            /\ result.explanationData.kind = "warn_or_error" =>
                 result.explanationData.triedSources[1] =
                   labelForSourceName(result.sources[FirstBest(result.sources)].name)

\* a returned staged run went through the API stage, a query-enhancement round and
\* a successful web search, and two of its sources share the maximal match score
C15_Witness ==
  /\ Staged /\ Returned
  /\ Len(rounds) >= 2
  /\ WebFound
  /\ Cardinality(BestPositions(result.sources)) >= 2
  /\ result.explanationData.kind = "warn_or_error"

(***************************************************************************)
(* Properties of the title similarity                                      *)
(***************************************************************************)
SimTitleDone == simPc \in {"title", "scores"}

\* C16: titleSimilarity is symmetric: titleSimilarity(a, b) = titleSimilarity(b, a)
\* for all strings a and b, whatever their words, repeated or not
C16_TitleSimilaritySymmetric ==
  SimTitleDone => simTitle = titleSimilarity(simB, simA)

\* C17: titleSimilarity(x, x) = 1 for every non-empty string x, and
\* titleSimilarity("", y) = 0 for every non-empty string y
C17_TitleSimilarityIdentityAndEmpty ==
  SimTitleDone =>
    /\ (simA # <<>> /\ simA = simB) => simTitle = One
    /\ (simA = <<>> /\ simB # <<>>) => simTitle = Zero

(***************************************************************************)
(* Properties of the bibliography parser                                   *)
(***************************************************************************)
ParseReturned == parsePc = "returned"

\* C18: the citation numbers of the list extractReferencesWithRegex returns are
\* exactly 1, 2, ..., N in list order, N being the length of the list, whichever
\* strategy produced the list and whatever labels the text carries
C18_CitationNumbersContiguous ==
  ParseReturned =>
    \A i \in 1..Len(parseResult) : parseResult[i].citation_number = i

\* the bibliography of n entries labelled [1] ... [n], and what its entries hold
BracketedOneToN(n) == Bibliography("bracket", [i \in 1..n |-> i], FALSE, 1)
S_2018 == <<"2", "0", "1", "8">>
EntryTitles ==
  <<<<"A", " ", "G", "r", "e", "a", "t", " ", "T", "i", "t", "l", "e">>,
    <<"A", "n", "o", "t", "h", "e", "r", " ", "T", "i", "t", "l", "e">>,
    <<"Y", "e", "t", " ", "A", "n", "o", "t", "h", "e", "r", " ", "T", "i", "t", "l", "e">>>>
EntryYears == <<S_2020, S_2019, S_2018>>
EntryTitle(i) == EntryTitles[((i - 1) % Len(EntryTitles)) + 1]
EntryYear(i) == EntryYears[((i - 1) % Len(EntryYears)) + 1]

\* C19: from a bibliography of N entries labelled [1] ... [N], N >= 2,
\* extractReferencesWithRegex returns exactly N entries in text order, numbered
\* 1..N, each with the title and the year of its entry
C19_BracketedEntries ==
  \A n \in 2..MaxEntries :
    (ParseReturned /\ parseText = BracketedOneToN(n)) =>
      /\ Len(parseResult) = n
      /\ \A i \in 1..n :
           /\ parseResult[i].citation_number = i
           /\ parseResult[i].title = EntryTitle(i)
           /\ parseResult[i].year = EntryYear(i)
      /\ \A i \in 1..(n - 1) :
           parseResult[i].relativeIndex < parseResult[i + 1].relativeIndex

\* position in Strategies of the first of the first four strategies whose output on
\* the normalized text has at least 3 entries, that of the fallback if there is none
FirstQualified(normalizedText) ==
  First({i \in 1..4 : Len(Extracted(Strategies[i], normalizedText)) >= 3}, 5)

\* the call has not returned and has a next step
ParseRunning ==
  /\ parsePc \in {"start", "bracketed", "two-column", "period-numbered", "author-year",
                  "fallback"}
  /\ parseResult = Null

\* C20: extractReferencesWithRegex consults the strategies in the order bracketed,
\* two-column, period-numbered, author-year, fallback and returns the output of
\* the first one that has at least 3 entries: no output of the first four with
\* fewer than 3 entries is returned, no strategy after the qualifying one is
\* consulted, and when none of the first four qualifies the call returns the
\* fallback's output, empty or not, as a list
C20_FirstStrategyWithThreeWins ==
  LET Returns(winner, normalizedText) ==
        /\ parseTried = SubSeq(Strategies, 1, winner)
        /\ parseResult = Extracted(Strategies[winner], normalizedText)
        /\ winner < 5 => Len(parseResult) >= 3
        /\ \A i \in 1..(winner - 1) : Len(Extracted(Strategies[i], normalizedText)) < 3
      Result(normalizedText) == Returns(FirstQualified(normalizedText), normalizedText)
  IN  IF ParseReturned THEN Result(normalizeBibliographyText(parseText))
      ELSE ParseRunning

\* the bracketed strategy found two entries, too few to be returned: every strategy
\* was consulted and the call returned the fallback's output, the empty list
C20_Witness ==
  /\ ParseReturned
  /\ Len(extractBracketedReferences(parseNormalized)) = 2
  /\ parseTried = Strategies
  /\ parseResult = <<>>

(***************************************************************************)
(* Properties of the two-column strategy                                   *)
(***************************************************************************)
TwoColumnConsulted == \E i \in 1..Len(parseTried) : parseTried[i] = "two-column"

\* the number accepted last before position i when the positions accepted are those
\* of the set, 0 when there is none
LastAcceptedBefore(matches, positions, i) ==
  LET before == {j \in positions : j < i}
  IN  IF before = {} THEN 0
      ELSE matches[CHOOSE j \in before : \A k \in before : k <= j].number

\* C21: the two-column strategy scans the detected numbers in text order and
\* accepts a number exactly when it lies between lastAccepted + 1 and
\* lastAccepted + 3 (lastAccepted starting at 0), so the accepted labels increase
\* strictly by steps of 1 to 3; the accepted boundaries slice the text and the
\* entries are numbered 1..N whatever the labels; labels 1, 2, 4 give three
\* entries numbered 1, 2, 3
C21_TwoColumnGapTolerantRenumbering ==
  LET Scan(matches, accepted, output) ==
        LET positions == {i \in 1..Len(matches) :
                            \E k \in 1..Len(accepted) : accepted[k] = matches[i]}
            LastAt(i) == LastAcceptedBefore(matches, positions, i)
        IN  /\ \A i \in 1..Len(matches) :
                 i \in positions <=>
                   /\ matches[i].number >= LastAt(i) + 1
                   /\ matches[i].number <= LastAt(i) + 3
            /\ Len(accepted) = Cardinality(positions)
            /\ \A k \in 1..Len(accepted) :
                 LET step == accepted[k].number
                               - (IF k = 1 THEN 0 ELSE accepted[k - 1].number)
                 IN  step \in 1..3
            /\ \A k \in 1..(Len(accepted) - 1) : accepted[k].index < accepted[k + 1].index
            /\ Len(accepted) < 3 => output = <<>>
            /\ \A n \in 1..Len(output) :
                 /\ output[n].citation_number = n
                 /\ \E k \in 1..Len(accepted) : accepted[k].index = output[n].relativeIndex
            /\ \A n \in 1..(Len(output) - 1) :
                 output[n].relativeIndex < output[n + 1].relativeIndex
            /\ (ParseReturned /\ parseTried[Len(parseTried)] = "two-column") =>
                 parseResult = output
            /\ parseText = Bibliography("glued", <<1, 2, 4>>, FALSE, 1) =>
                 /\ Len(output) = 3
                 /\ \A n \in 1..3 : output[n].raw_text = Tail(normalizeBibliographyText(
                                       EntryLabel("glued", 1) \o EntryBody(n, FALSE)))
      Consulted(matches) ==
        Scan(matches, KeepSequential(matches, 0), extractTwoColumnReferences(parseNormalized))
  IN  TwoColumnConsulted => Consulted(TwoColumnMatches(parseNormalized))

\* the two-column strategy returned the three entries of a bibliography whose glued
\* labels are 1, 2, 4
C21_Witness ==
  /\ ParseReturned
  /\ parseTried = <<"bracketed", "two-column">>
  /\ parseText = Bibliography("glued", <<1, 2, 4>>, FALSE, 1)
  /\ Len(parseResult) = 3
  /\ \A n \in 1..3 : parseResult[n].citation_number = n

(***************************************************************************)
(* Properties of the connectors' scoring                                   *)
(***************************************************************************)
\* C22: every connector (CrossRef, Semantic Scholar, OpenAlex, arXiv) scores
\* alike: a title-search candidate is accepted only if its titleSimilarity to the
\* reference title is above 0.6, the match score weighs title 0.5, author overlap
\* 0.3 and year closeness 0.2, and the web-search confidence uses the same
\* formula; so for one reference and one record the arXiv connector accepts what
\* the other connectors accept and gives the score they give
C22_ConnectorsScoreAlike ==
  simPc = "scores" =>
    LET ref == Paper(simA, <<>>, <<>>, <<>>)
        work == Paper(simB, <<>>, <<>>, <<>>)
    IN  /\ simScores.arxivScore = simScores.matchScore
        /\ simScores.confidence = simScores.matchScore
        /\ ConnectorFinds("arxiv", ref, work) <=> ConnectorFinds("crossref", ref, work)

(***************************************************************************)
(* Properties of the extraction orchestrator                               *)
(***************************************************************************)
Invoked(extractor) == {i \in 1..Len(exCalled) : exCalled[i] = extractor}

\* the documented choice of the extractor and the page numbers of a GROBID result
ExtractorChoice ==
  /\ exPc \notin {"idle", "start"} /\ exInput.useLLM /\ exInput.pdfFile =>
       /\ exCalled[1] = "llm"
       /\ Invoked("grobid") # {} => exLlm \in {"empty", "error"}
  /\ exPc # "idle" /\ ~exInput.useLLM => Invoked("llm") = {}
  /\ Invoked("regex") = {}
  /\ exPc = "returned" /\ exResult.method = "grobid" =>
       \A i \in 1..Len(exResult.references) : exResult.references[i].page_number # NoPage

\* C23: extractReferences chooses the extractor as documented: with LLM
\* extraction enabled and a PDF file present the LLM extractor is invoked first
\* and GROBID only if the LLM returned no references or raised an error; with LLM
\* extraction disabled only GROBID is invoked; the regex extractor is never
\* invoked; GROBID is invoked at most once per extraction; every reference of a
\* returned GROBID result has a page number
C23_ExtractorChoiceGrobidOnce ==
  /\ ExtractorChoice
  /\ Cardinality(Invoked("grobid")) <= 1

(***************************************************************************)
(* Properties of the store under a validation run                          *)
(***************************************************************************)
StoredReference(id) == stReferences[CHOOSE i \in 1..Len(stReferences) : stReferences[i].id = id]

\* C24: a stored validation result always belongs to the current data of its
\* reference: updateReference(id, updates) removes the result of id and leaves
\* the other results and the ids unchanged, and afterwards no result computed
\* from the data id had before the edit is stored, also when a validate-all run
\* that started before the edit is still in flight and reports its result later
C24_StoredResultsCurrent ==
  /\ \A id \in DOMAIN stResults :
       /\ \E i \in 1..Len(stReferences) : stReferences[i].id = id
       /\ stResults[id].referenceId = id
       /\ stResults[id].validated = StoredReference(id).title
  /\ \A i \in 1..Len(stReferences) : stReferences[i].id = i

\* what holds of a run of validateAllReferences that has gone through vaI - 1 of
\* its references
ValidateAllInOrder ==
  LET total == Len(vaReferences)
      done == vaI - 1
  IN  vaI >= 1 =>
        /\ vaI <= total + 1
        /\ Len(vaResults) = done
        /\ vaOnResult = vaResults
        /\ \A k \in 1..done :
             /\ vaResults[k].referenceId = vaReferences[k].id
             /\ vaResults[k].validated = vaReferences[k].title
        /\ Len(vaProgressLog) = vaI
        /\ \A k \in 1..Min(vaI, total) :
             /\ vaProgressLog[k].total = total
             /\ vaProgressLog[k].completed = k - 1
             /\ vaProgressLog[k].current = CurrentLabel(vaReferences[k], k)
        /\ vaI = total + 1 =>
             /\ vaPc \in {"returned", "idle"}
             /\ vaProgressLog[vaI] = [total |-> total, completed |-> total, current |-> Null]
        /\ vaPc = "awaiting" <=> vaI <= total

\* a validateReference that throws yields an unverified result with one not_found
\* error issue, handed to onResult, and the loop goes on
ThrowIsReported ==
  ValidateReferenceThrows =>
    /\ Len(vaOnResult') = Len(vaOnResult) + 1
    /\ vaOnResult'[Len(vaOnResult')].referenceId = vaReferences[vaI].id
    /\ vaOnResult'[Len(vaOnResult')].status = "unverified"
    /\ vaOnResult'[Len(vaOnResult')].issues = <<[type |-> "not_found", severity |-> "error"]>>
    /\ vaI < Len(vaReferences) => vaPc' = "awaiting" /\ vaI' = vaI + 1

\* C30: validateAllReferences processes the references one at a time in list
\* order: onResult is called exactly once per reference, in order, also when a
\* validation throws (the result is then unverified with a not_found error issue
\* and the later references are still validated); the completed values of
\* onProgress are 0..total-1, then a final call has completed = total and
\* current = null; the returned list has one result per reference
C30_ValidateAllSequential == []ValidateAllInOrder /\ [][ThrowIsReported]_vars

\* a run over two references has returned; the validation of the first threw, the
\* second was verified
C30_Witness ==
  /\ vaPc = "returned"
  /\ Len(vaReferences) = 2
  /\ vaOnResult = <<ErrorResult(vaReferences[1]),
                    ValidationResultOf(vaReferences[2], "verified", <<>>)>>
  /\ Len(vaProgressLog) = 3

(***************************************************************************)
(* Properties of the rate limiter                                          *)
(***************************************************************************)
\* every window lasts 60 s from the request that opened it, and at most 100 requests
\* were passed on in it
RateLimitWindows ==
  /\ DOMAIN rlWindows = DOMAIN requestCounts
  /\ \A clientIp \in DOMAIN requestCounts :
       /\ requestCounts[clientIp].resetTime = rlWindows[clientIp].opened + RATE_LIMIT_WINDOW_MS
       /\ rlWindows[clientIp].passed <= 100
       /\ rlWindows[clientIp].passed = requestCounts[clientIp].count

\* what a request of clientIp does
RateLimitStep ==
  \A clientIp \in ClientIps :
    (RlRequest /\ rlResponse'.clientIp = clientIp) =>
      /\ \A other \in DOMAIN requestCounts \ {clientIp} :
           other \in DOMAIN requestCounts' /\ requestCounts'[other] = requestCounts[other]
      /\ (/\ clientIp \in DOMAIN requestCounts
          /\ rlNow < requestCounts[clientIp].resetTime
          /\ rlWindows[clientIp].passed >= 100) =>
           /\ rlResponse'.status = "429"
           /\ requestCounts' = requestCounts
      /\ (/\ clientIp \in DOMAIN requestCounts
          /\ rlNow > requestCounts[clientIp].resetTime) =>
           /\ rlResponse'.status = "next"
           /\ requestCounts'[clientIp] = [count |-> 1, resetTime |-> rlNow + 60000]
      /\ rlResponse'.status = "429" => requestCounts' = requestCounts

\* C25: for each client IP at most 100 requests are passed on within one window
\* (60 s from the first request of the window); every further request of that IP
\* before the reset time is answered with 429, is not passed on and leaves the
\* counter unchanged; the first request after the reset time opens a new window
\* with count 1; the counters of different IPs are independent
C25_RateLimit == []RateLimitWindows /\ [][RateLimitStep]_vars

\* one client was answered 429 in its first window while the other client's count is
\* below the limit
C25_Witness ==
  /\ rlResponse # Null
  /\ rlResponse.status = "429"
  /\ rlNow < requestCounts[rlResponse.clientIp].resetTime
  /\ requestCounts[rlResponse.clientIp].count = 100
  /\ \E other \in DOMAIN requestCounts : requestCounts[other].count = 1

(***************************************************************************)
(* Properties of extractArxivId                                            *)
(***************************************************************************)
\* C28: extractArxivId is deterministic and stateless: whatever texts it was
\* called with before, extractArxivId(t) returns the first arXiv id of t, or null
\* when t has none
C28_ExtractArxivIdStateless ==
  arxivCalls # <<>> =>
    LET FirstId(match) == IF match.group # Null THEN <<match.group>> ELSE <<>>
    IN  arxivResult = FirstId(ArxivExec(arxivCalls[Len(arxivCalls)], 0))

(***************************************************************************)
(* Properties of the explanation stage                                     *)
(***************************************************************************)
\* generateExplanation has been invoked once if the analyzer's status is unverified
\* and never otherwise
ExplainedIffUnverified ==
  /\ Simple => nCalls.explain = 0
  /\ Staged =>
       /\ analysis = Null => nCalls.explain = 0
       /\ analysis # Null =>
            /\ analysis.status = "unverified" => nCalls.explain = 1
            /\ analysis.status \in {"verified", "warning", "error"} => nCalls.explain = 0
       /\ pc = "done" => analysis # Null /\ result.status = analysis.status

\* whatever generateExplanation gets from the language model, a failure included,
\* the run returns the unverified result with the templated explanation
ExplanationAlwaysReturns ==
  (pc = "explain" /\ pc' # "explain") =>
    /\ pc' = "done"
    /\ result' # Null
    /\ result'.status = "unverified"
    /\ result'.explanationData.kind = "unverified"
    /\ SubSeq(result'.explanationData.nextSteps, 1, Len(BaseNextSteps)) = BaseNextSteps

\* C27: in staged mode generateExplanation is invoked exactly once when the
\* analyzer's final status is unverified and not at all when it is verified,
\* warning or error; when the LLM is not configured or its call fails the
\* templated explanation is used and the run still returns normally
C27_ExplainOnlyUnverified == []ExplainedIffUnverified /\ [][ExplanationAlwaysReturns]_vars

\* a staged run has returned an unverified result after one call of
\* generateExplanation, with the templated next steps only
C27_Witness ==
  /\ Staged
  /\ pc = "done"
  /\ result.status = "unverified"
  /\ nCalls.explain = 1
  /\ result.explanationData.nextSteps = BaseNextSteps

(***************************************************************************)
(* Properties of the status decision                                       *)
(***************************************************************************)
\* C29: in both analyzers status error is returned only when titleScore < 0.70,
\* authorScore < 0.60 and the best source's matchScore is at most 0.5: the error
\* branch under the partial-match rule (titleScore >= 0.70 or authorScore >= 0.60
\* with neither score >= 0.5) is never taken
C29_ErrorOnlyWhenAllLow ==
  (AnaRan /\ anaResult.status = "error") =>
    /\ AnaCompares
    /\ RLt(AnaTitleScore, <<7, 10>>)
    /\ RLt(AnaAuthorScore, <<3, 5>>)
    /\ ~RGt(AnaBest.matchScore, <<1, 2>>)

\* an analyzer returned error for a best source whose match score is one half
C29_Witness ==
  /\ AnaCompares
  /\ anaResult.status = "error"
  /\ AnaBest.matchScore = <<1, 2>>
  /\ RLt(AnaTitleScore, <<7, 10>>) /\ RLt(AnaAuthorScore, <<3, 5>>)

(***************************************************************************)
(* Properties of detectBibliography                                        *)
(***************************************************************************)

\* every match of every header pattern anywhere in the text
HeaderMatches(fullText) ==
  {[index |-> at[2] - 1, end |-> MatchEndAt(BIBLIOGRAPHY_HEADERS[at[1]], fullText, at[2]) - 1] :
     at \in {kp \in (DOMAIN BIBLIOGRAPHY_HEADERS) \X (1..Len(fullText)) :
               MatchEndAt(BIBLIOGRAPHY_HEADERS[kp[1]], fullText, kp[2]) > 0}}

\* the indexes from startIndex on where a section-end marker matches
MarkerIndexes(fullText, startIndex) ==
  {i \in startIndex..(Len(fullText) - 1) :
     \E k \in DOMAIN SECTION_END_MARKERS :
       MatchEndAt(SECTION_END_MARKERS[k], fullText, i + 1) > 0}

\* C26: detectBibliography applies its three steps in priority order.  When a header
\* pattern matches anywhere in the text, the section starts at the end of a header
\* match with the largest start offset among all matches of all header patterns; the
\* numbered-list search is used only when no header pattern matches; the heuristic is
\* used only when both earlier steps fail; and the section ends at the earliest
\* section-end marker after the start, or at the end of the text, so that
\* start <= end <= text length.
C26_DetectionPriority ==
  bibPc = "returned" =>
    LET fullText == bibDoc.fullText
        matches == HeaderMatches(fullText)
        Rightmost(m) == \A o \in matches : o.index <= m.index
        markers == MarkerIndexes(fullText, bibStartIndex)
    IN  /\ matches # {} =>
             /\ bibMatchedPattern = "header"
             /\ \E m \in matches : Rightmost(m) /\ bibStartIndex = m.end
        /\ bibMatchedPattern = "numbered fallback" => matches = {}
        /\ bibMatchedPattern = "heuristic fallback" =>
             matches = {} /\ NumberedStart(fullText) = -1
        /\ bibResult # Null =>
             /\ bibEndIndex = IF markers = {} THEN Len(fullText) ELSE First(markers, 0)
             /\ bibStartIndex <= bibEndIndex /\ bibEndIndex <= Len(fullText)

====
